---- MODULE Spec2Model ----
(***************************************************************************)
(* Smartfetch: an HTTP GET node with a response cache.  The model covers   *)
(* the cache helpers (isCacheValid, generateCacheKey), the in-memory       *)
(* adapter, the PostgreSQL adapter with its lazy, guarded initialization,  *)
(* and Smartfetch.execute, the per-batch orchestration loop.               *)
(*                                                                         *)
(* Numbers.  Millisecond quantities exceed 32 bits (Date.now(), ttl*1000), *)
(* so a millisecond count is kept as two base-1000 limbs [s, m] standing   *)
(* for s*1000 + m with 0 <= m < 1000.  TTLs are whole seconds or one of    *)
(* the non-finite IEEE values, written as records [kind, v].               *)
(***************************************************************************)
EXTENDS Integers, Sequences, FiniteSets, TLC

VARIABLES now, ticks, mem, db, pg, calls, opCount, ex

vars == <<now, ticks, mem, db, pg, calls, opCount, ex>>

----------------------------------------------------------------------------
(* Bounds of the model                                                     *)

MaxBatches == 2
MaxItems == 2
MaxTicks == 1
MaxCallers == 2
MaxOps == 3
MaxAttempts == 2
StartSeconds == 1000

Batches == 1..MaxBatches
Callers == 1..MaxCallers
Adapters == Batches \cup {1}

----------------------------------------------------------------------------
(* Millisecond arithmetic on two limbs                                     *)

Ms(s, m) == [s |-> s, m |-> m]

MsAdd(a, b) ==
  LET m == a.m + b.m
  IN  [s |-> a.s + b.s + (m \div 1000), m |-> m % 1000]

MsLess(a, b) == a.s < b.s \/ (a.s = b.s /\ a.m < b.m)

MsMin(a, b) == IF MsLess(b, a) THEN b ELSE a

\* ttl * 1000 for a whole number of seconds
Times1000(t) == Ms(t, 0)

----------------------------------------------------------------------------
(* JavaScript numbers as they reach the TTL check: a whole number, or one  *)
(* of the non-finite values                                                *)

Num(v) == [kind |-> "num", v |-> v]
NaN == [kind |-> "NaN", v |-> 0]
PosInfinity == [kind |-> "Infinity", v |-> 0]
NegInfinity == [kind |-> "-Infinity", v |-> 0]

\* Number.isFinite
IsFinite(x) == x.kind = "num"

\* x <= y and x > y for a JS number x and a whole number y; every comparison
\* with NaN is false
NumLeq(x, y) ==
  CASE x.kind = "num" -> x.v <= y
    [] x.kind = "-Infinity" -> TRUE
    [] OTHER -> FALSE

NumGt(x, y) ==
  CASE x.kind = "num" -> x.v > y
    [] x.kind = "Infinity" -> TRUE
    [] OTHER -> FALSE

----------------------------------------------------------------------------
(* Strings are sequences of one-character strings                          *)

Lower == {"a","b","c","d","e","f","g","h","i","j","k","l","m",
          "n","o","p","q","r","s","t","u","v","w","x","y","z"}
Upper == {"A","B","C","D","E","F","G","H","I","J","K","L","M",
          "N","O","P","Q","R","S","T","U","V","W","X","Y","Z"}
Digit == {"0","1","2","3","4","5","6","7","8","9"}

\* [a-zA-Z_] and [a-zA-Z0-9_]
IdentStart == Lower \cup Upper \cup {"_"}
IdentChar == IdentStart \cup Digit

----------------------------------------------------------------------------
(* cache/types.ts: entries, validity, key derivation                       *)

Entry(k, u, r, c, t) ==
  [key |-> k, requestUrl |-> u, response |-> r, cachedAt |-> c, ttl |-> t]

\* the cap of isCacheValid, 2147483647 ms, as its two limbs
CapSeconds == 2147483
CapMillis == 647

\* a validity check without the cap on ttl * 1000
IsCacheValidUncapped(entry, t) ==
  MsLess(t, MsAdd(entry.cachedAt, Times1000(entry.ttl)))

\* isCacheValid(entry) evaluated when Date.now() is t
\* a check that takes every entry for valid
IsCacheValidAlways(entry, t) == TRUE

IsCacheValid(entry, t) ==
  LET safeTtlMs == MsMin(Times1000(entry.ttl), Ms(CapSeconds, CapMillis))
      expiresAt == MsAdd(entry.cachedAt, safeTtlMs)
  IN  MsLess(t, expiresAt)

\* SHA-256 in hex, taken as injective: the digest of s is s behind a marker
Sha256Hex(s) == <<"h">> \o s

\* an optional string: <<>> is undefined, <<s>> is the string s
Undefined == <<>>
Some(s) == <<s>>
Truthy(opt) == opt # <<>> /\ opt[1] # <<>>

\* the key of a url alone, whatever the credentials
GenerateCacheKeyUrlOnly(url, credentialHash) == Sha256Hex(url)

GenerateCacheKey(url, credentialHash) ==
  LET base == IF Truthy(credentialHash)
              THEN credentialHash[1] \o <<":">> \o url
              ELSE url
  IN  Sha256Hex(base)

\* JSON.stringify of a payload and JSON.parse of a string; a string that is
\* not JSON makes JSON.parse throw.  A payload is a number naming it; a string
\* is either the JSON text of a payload or some other text
\* String(p) in place of JSON.stringify(p): text that is not JSON
StringOf(p) == [json |-> FALSE, text |-> 0]
JsonStringify(p) == [json |-> TRUE, text |-> p]
NotJson == [json |-> FALSE, text |-> 0]
IsJson(str) == str.json
JsonParse(str) == str.text

\* the JSON text of payload p written with insignificant whitespace: it
\* parses to p and is not what JSON.stringify produces
Spaced(p) == [json |-> TRUE, text |-> p, spaced |-> TRUE]

----------------------------------------------------------------------------
(* cache/memory.ts: one Map shared by every MemoryCacheAdapter, kept here  *)
(* as the sequence of its entries in insertion order                       *)

MAX_CACHE_ENTRIES == 1000

MemHas(m, k) == \E i \in 1..Len(m) : m[i].key = k

MemIndex(m, k) == CHOOSE i \in 1..Len(m) : m[i].key = k

\* a delete that empties the map
MapDeleteAll(m, k) == <<>>

\* Map.delete
MapDelete(m, k) == SelectSeq(m, LAMBDA e : e.key # k)

\* a set that puts its key first, the next one to be evicted
MapSetFront(m, e) == <<e>> \o SelectSeq(m, LAMBDA x : x.key # e.key)

\* Map.set: an existing key keeps its place, a new key goes last
MapSet(m, e) ==
  IF MemHas(m, e.key) THEN [m EXCEPT ![MemIndex(m, e.key)] = e]
  ELSE Append(m, e)

PruneExpired(m, t) == SelectSeq(m, LAMBDA e : IsCacheValid(e, t))

\* an eviction that stops one entry late: the map may reach the limit plus one
RECURSIVE EvictOldestLate(_)
EvictOldestLate(m) ==
  IF Len(m) > MAX_CACHE_ENTRIES THEN EvictOldestLate(Tail(m)) ELSE m

\* while (size >= MAX_CACHE_ENTRIES) delete the first key
RECURSIVE EvictOldest(_)
EvictOldest(m) ==
  IF Len(m) >= MAX_CACHE_ENTRIES /\ Len(m) > 0 THEN EvictOldest(Tail(m)) ELSE m

\* a get without the validity check
MemGetStale(m, k, t) ==
  IF ~MemHas(m, k) THEN [map |-> m, result |-> <<>>]
  ELSE [map |-> m, result |-> <<m[MemIndex(m, k)]>>]

\* a get that moves the entry it returns to the end of the map, as a store
\* evicting by least recent use would
MemGetTouch(m, k, t) ==
  IF ~MemHas(m, k) THEN [map |-> m, result |-> <<>>]
  ELSE LET e == m[MemIndex(m, k)]
       IN  IF ~IsCacheValid(e, t)
           THEN [map |-> MapDelete(m, k), result |-> <<>>]
           ELSE [map |-> Append(MapDelete(m, k), e), result |-> <<e>>]

\* a get that sweeps every expired entry out of the map, not only the one it
\* was asked for
MemGetSweep(m, k, t) ==
  LET p == PruneExpired(m, t)
  IN  IF MemHas(p, k) THEN [map |-> p, result |-> <<p[MemIndex(p, k)]>>]
      ELSE [map |-> p, result |-> <<>>]

\* get: the new map and the result (<<>> for null)
MemGet(m, k, t) ==
  IF ~MemHas(m, k) THEN [map |-> m, result |-> <<>>]
  ELSE LET e == m[MemIndex(m, k)]
       IN  IF ~IsCacheValid(e, t)
           THEN [map |-> MapDelete(m, k), result |-> <<>>]
           ELSE [map |-> m, result |-> <<e>>]

\* a set that makes room only for a key the map does not hold
MemSetEvictForNewKey(m, e, t) ==
  IF MemHas(PruneExpired(m, t), e.key) THEN MapSet(PruneExpired(m, t), e)
  ELSE MapSet(EvictOldest(PruneExpired(m, t)), e)

\* a set that makes room before it prunes
MemSetEvictFirst(m, e, t) == MapSet(PruneExpired(EvictOldest(m), t), e)

MemSet(m, e, t) == MapSet(EvictOldest(PruneExpired(m, t)), e)

\* a delete that leaves the map as it is
MemDeleteNothing(m, k) == m

\* delete
MemDelete(m, k) == MapDelete(m, k)

----------------------------------------------------------------------------
(* Smartfetch.execute: validation of the table name and of a custom TTL    *)

IDENT_LIMIT == 63
TTL_MAX == 31536000

\* /^[a-zA-Z_][a-zA-Z0-9_]*$/.test(tableName)
MatchesIdent(name) ==
  /\ Len(name) >= 1
  /\ name[1] \in IdentStart
  /\ \A i \in 2..Len(name) : name[i] \in IdentChar

TableNameErrorMutOffByOne(name) ==
  IF ~MatchesIdent(name) THEN "pattern"
  ELSE IF Len(name) > IDENT_LIMIT + 1 THEN "length"
  ELSE "none"

\* which of the two checks throws, if any
TableNameError(name) ==
  IF ~MatchesIdent(name) THEN "pattern"
  ELSE IF Len(name) > IDENT_LIMIT THEN "length"
  ELSE "none"

CustomTtlRejectedMutNoFinite(ttl) == NumLeq(ttl, 0) \/ NumGt(ttl, TTL_MAX)

\* !Number.isFinite(ttl) || ttl <= 0 || ttl > 31536000
CustomTtlRejected(ttl) ==
  ~IsFinite(ttl) \/ NumLeq(ttl, 0) \/ NumGt(ttl, TTL_MAX)

----------------------------------------------------------------------------
(* cache/postgres.ts: escapeName                                           *)

RECURSIVE DoubleQuotes(_)
DoubleQuotes(str) ==
  IF str = <<>> THEN <<>>
  ELSE (IF Head(str) = "\"" THEN <<"\"", "\"">> ELSE <<Head(str)>>)
       \o DoubleQuotes(Tail(str))

\* an escaping that doubles the quotes and strips nothing
EscapeNameQuotesOnly(name) == <<"\"">> \o DoubleQuotes(name) \o <<"\"">>

\* an escaping that keeps letters and digits only
EscapeNameNoUnderscore(name) ==
  <<"\"">> \o SelectSeq(name, LAMBDA ch : ch \in IdentChar \ {"_"}) \o <<"\"">>

EscapeName(name) ==
  LET sanitized == SelectSeq(name, LAMBDA ch : ch \in IdentChar)
      escaped == DoubleQuotes(sanitized)
  IN  <<"\"">> \o escaped \o <<"\"">>

----------------------------------------------------------------------------
(* cache/postgres.ts: the adapter, its pg Client and the table             *)
(*                                                                         *)
(* pg[a] is adapter a with the facts about its Client: how often connect   *)
(* and end were called, whether a connection is open.  attempts[n] is the  *)
(* n-th run of doInitialize, and initPromise = n says that the guard holds *)
(* that run's promise (0 for null).  calls[c] is the operation caller c    *)
(* has in flight.  db maps a quoted table identifier to its rows.          *)

CallIds == Callers \cup Batches

Unbuilt ==
  [built |-> FALSE, tableName |-> <<>>, initialized |-> FALSE,
   initPromise |-> 0, attempts |-> <<>>, connectCalls |-> 0,
   connectOk |-> 0, createCalls |-> 0, endCalls |-> 0, open |-> FALSE,
   credentials |-> [type |-> "undefined", v |-> ""], ssl |-> <<>>]

\* the constructor of postgres.ts before the verify modes were added
SslConfigNeverVerified(ssl) ==
  IF ssl = [type |-> "string", v |-> "disable"] \/ ssl = [type |-> "boolean", v |-> "false"]
  THEN <<>>
  ELSE <<[rejectUnauthorized |-> FALSE]>>

\* the ssl option the constructor hands to the pg Client for credentials.ssl,
\* which is a string, a boolean or undefined: <<>> is `false` (no SSL),
\* <<[rejectUnauthorized |-> b]>> is the object { rejectUnauthorized: b }
SslConfig(ssl) ==
  IF ssl = [type |-> "string", v |-> "disable"] \/ ssl = [type |-> "boolean", v |-> "false"]
  THEN <<>>
  ELSE IF ssl = [type |-> "string", v |-> "allow"] \/ ssl = [type |-> "string", v |-> "require"]
  THEN <<[rejectUnauthorized |-> FALSE]>>
  ELSE IF ssl = [type |-> "string", v |-> "verify-ca"]
          \/ ssl = [type |-> "string", v |-> "verify-full"]
  THEN <<[rejectUnauthorized |-> TRUE]>>
  ELSE IF ssl = [type |-> "boolean", v |-> "true"] \/ ssl = [type |-> "undefined", v |-> ""]
  THEN <<[rejectUnauthorized |-> FALSE]>>
  ELSE <<[rejectUnauthorized |-> FALSE]>>

\* new PostgresCacheAdapter(credentials, tableName), credentials being their
\* ssl setting
PostgresCacheAdapter(credentials, tableName) ==
  [Unbuilt EXCEPT !.built = TRUE, !.tableName = tableName,
                  !.credentials = credentials, !.ssl = SslConfig(credentials)]

\* the adapter for credentials that leave ssl out
NewAdapter(name) == PostgresCacheAdapter([type |-> "undefined", v |-> ""], name)

NoCall ==
  [adapter |-> 0, op |-> "none", phase |-> "idle", att |-> 0, key |-> <<>>,
   entry |-> <<>>, seen |-> "none", outcome |-> "none", err |-> "none",
   result |-> <<>>]

Settled(att) == att.phase \in {"resolved", "rejected"}

InFlight(A) == {n \in 1..Len(A.attempts) : ~Settled(A.attempts[n])}

\* doInitialize up to its first await: connect is called
DoInitialize(A) ==
  [A EXCEPT !.attempts = Append(@, [phase |-> "connect", err |-> "none"]),
            !.connectCalls = @ + 1]

\* the adapter of postgres.ts before the guard was added: every caller that
\* finds the adapter uninitialized connects
EnsureInitializedNoGuard(A) ==
  IF A.initialized THEN [adapter |-> A, att |-> 0]
  ELSE [adapter |-> [DoInitialize(A) EXCEPT !.initPromise = Len(A.attempts) + 1],
        att |-> Len(A.attempts) + 1]

\* ensureInitialized: the adapter afterwards and the attempt whose promise
\* the caller awaits (0: none, the adapter is initialized)
EnsureInitialized(A) ==
  IF A.initialized THEN [adapter |-> A, att |-> 0]
  ELSE IF A.initPromise = 0
  THEN [adapter |-> [DoInitialize(A) EXCEPT !.initPromise = Len(A.attempts) + 1],
        att |-> Len(A.attempts) + 1]
  ELSE [adapter |-> A, att |-> A.initPromise]

\* ensureInitialized would run doInitialize
StartsAttempt(A) == EnsureInitialized(A).att > Len(A.attempts)

\* what follows `await this.ensureInitialized()` in get, set and delete: the
\* statement is sent; set evaluates JSON.parse(entry.response) first
IssueQuery(call) ==
  IF call.op = "set" /\ ~IsJson(call.entry[1].response)
  THEN [call EXCEPT !.phase = "done", !.outcome = "error", !.err = "parse"]
  ELSE [call EXCEPT !.phase = "query"]

\* get, set or delete is called by c on adapter a
PgInvoke(c, a, op, k, e) ==
  LET r == EnsureInitialized(pg[a])
      call == [NoCall EXCEPT !.adapter = a, !.op = op, !.key = k, !.entry = e,
                             !.att = r.att]
  IN  /\ StartsAttempt(pg[a]) => Len(pg[a].attempts) < MaxAttempts
      /\ pg' = [pg EXCEPT ![a] = r.adapter]
      /\ calls' = [calls EXCEPT ![c] =
                     IF r.att = 0 THEN IssueQuery([call EXCEPT !.seen = "ok"])
                     ELSE [call EXCEPT !.phase = "init"]]

\* the rows of the adapter's table
TableOf(A) == EscapeName(A.tableName)
Rows(A) == IF TableOf(A) \in DOMAIN db THEN db[TableOf(A)] ELSE {}

\* the value a JSONB column gives back for the value v stored in it: the same
\* value with the members of its objects in the column's own order.  A
\* negative number names the payload -v with its members in another order
Jsonb(v) == IF v < 0 THEN -v ELSE v

\* a row whose cached_at has lost the milliseconds
RowOfSeconds(e) ==
  [key |-> e.key, request_url |-> e.requestUrl,
   response |-> Jsonb(JsonParse(e.response)),
   cached_at |-> Ms(e.cachedAt.s, 0), ttl |-> e.ttl]

RowOf(e) ==
  [key |-> e.key, request_url |-> e.requestUrl,
   response |-> Jsonb(JsonParse(e.response)),
   cached_at |-> e.cachedAt, ttl |-> e.ttl]

\* the CacheEntry get builds from a row
EntryOf(row) ==
  Entry(row.key, row.request_url, JsonStringify(row.response), row.cached_at, row.ttl)

\* INSERT ... ON CONFLICT (key) DO NOTHING: the row that is there stays
UpsertKeepOld(rows, row) ==
  IF \E r \in rows : r.key = row.key THEN rows ELSE rows \cup {row}

\* INSERT ... ON CONFLICT (key) DO UPDATE
Upsert(rows, row) == {r \in rows : r.key # row.key} \cup {row}

\* client.connect() settles for attempt n
ConnectSettle(a, n, ok) ==
  /\ n \in 1..Len(pg[a].attempts)
  /\ pg[a].attempts[n].phase = "connect"
  /\ pg' = [pg EXCEPT ![a] =
       IF ok
       THEN [@ EXCEPT !.connectOk = @ + 1, !.open = TRUE, !.createCalls = @ + 1,
                      !.attempts[n].phase = "create"]
       ELSE [@ EXCEPT !.attempts[n] = [phase |-> "rejected", err |-> "connect"]]]
  /\ UNCHANGED <<now, ticks, mem, db, calls, opCount, ex>>

\* the CREATE TABLE IF NOT EXISTS statement settles for attempt n; on failure
\* the catch block calls client.end()
CreateSettle(a, n, ok) ==
  /\ n \in 1..Len(pg[a].attempts)
  /\ pg[a].attempts[n].phase = "create"
  /\ ok => pg[a].open
  /\ pg' = [pg EXCEPT ![a] =
       IF ok
       THEN [@ EXCEPT !.initialized = TRUE, !.attempts[n].phase = "resolved"]
       ELSE [@ EXCEPT !.endCalls = @ + 1, !.open = FALSE,
                      !.attempts[n].phase = "end"]]
  /\ db' = IF ok /\ TableOf(pg[a]) \notin DOMAIN db
           THEN db @@ (TableOf(pg[a]) :> {})
           ELSE db
  /\ UNCHANGED <<now, ticks, mem, calls, opCount, ex>>

\* the client.end() of the catch block settles; only then is the guard reset
InitEndSettle(a, n, ok) ==
  /\ n \in 1..Len(pg[a].attempts)
  /\ pg[a].attempts[n].phase = "end"
  /\ pg' = [pg EXCEPT ![a] =
       IF ok
       THEN [@ EXCEPT !.initPromise = 0,
                      !.attempts[n] = [phase |-> "rejected", err |-> "create"]]
       ELSE [@ EXCEPT !.attempts[n] = [phase |-> "rejected", err |-> "end"]]]
  /\ UNCHANGED <<now, ticks, mem, db, calls, opCount, ex>>

\* a caller awaiting the guard's promise resumes once it has settled
InitReturn(c) ==
  LET call == calls[c]
      att == pg[call.adapter].attempts[call.att]
  IN  /\ call.phase = "init"
      /\ Settled(att)
      /\ calls' = [calls EXCEPT ![c] =
           IF att.phase = "resolved"
           THEN IssueQuery([call EXCEPT !.seen = "ok"])
           ELSE [call EXCEPT !.phase = "done", !.outcome = "error",
                             !.err = att.err, !.seen = att.err]]
      /\ UNCHANGED <<now, ticks, mem, db, pg, opCount, ex>>

\* the statement of a get, set or delete settles
QuerySettle(c, ok) ==
  LET call == calls[c]
      A == pg[call.adapter]
      found == {r \in Rows(A) : r.key = call.key}
  IN  /\ call.phase = "query"
      /\ ok => A.open /\ TableOf(A) \in DOMAIN db
      /\ calls' = [calls EXCEPT ![c] =
           IF ~ok
           THEN [call EXCEPT !.phase = "done", !.outcome = "error", !.err = "query"]
           ELSE [call EXCEPT !.phase = "done", !.outcome = "ok",
                   !.result = IF call.op = "get" /\ found # {}
                              THEN <<EntryOf(CHOOSE r \in found : TRUE)>>
                              ELSE <<>>]]
      /\ db' = IF ~ok \/ call.op = "get" THEN db
               ELSE IF call.op = "set"
               THEN [db EXCEPT ![TableOf(A)] = Upsert(@, RowOf(call.entry[1]))]
               ELSE [db EXCEPT ![TableOf(A)] = {r \in @ : r.key # call.key}]
      /\ UNCHANGED <<now, ticks, mem, pg, opCount, ex>>

PgCloseNoEnd(A) == A

\* a close that calls client.end() whether or not the adapter is initialized
PgCloseAlways(A) == [A EXCEPT !.endCalls = @ + 1, !.open = FALSE]

\* close up to its await: client.end() is called if the adapter is initialized
PgClose(A) ==
  IF A.initialized THEN [A EXCEPT !.endCalls = @ + 1, !.open = FALSE] ELSE A

\* close is called by c on adapter a
PgInvokeClose(c, a) ==
  /\ pg' = [pg EXCEPT ![a] = PgClose(@)]
  /\ calls' = [calls EXCEPT ![c] =
       IF PgClose(pg[a]).endCalls > pg[a].endCalls
       THEN [NoCall EXCEPT !.adapter = a, !.op = "close", !.phase = "closing"]
       ELSE [NoCall EXCEPT !.adapter = a, !.op = "close", !.phase = "done",
                           !.outcome = "ok"]]

\* the client.end() of close settles
CloseSettle(c, ok) ==
  LET call == calls[c]
  IN  /\ call.phase = "closing"
      /\ pg' = [pg EXCEPT ![call.adapter].initialized = IF ok THEN FALSE ELSE @]
      /\ calls' = [calls EXCEPT ![c] =
           IF ok THEN [call EXCEPT !.phase = "done", !.outcome = "ok"]
           ELSE [call EXCEPT !.phase = "done", !.outcome = "error", !.err = "end"]]
      /\ UNCHANGED <<now, ticks, mem, db, opCount, ex>>

\* what the adapter and its client do on their own
AdapterStep ==
  \/ \E a \in Adapters, n \in 1..MaxAttempts, ok \in BOOLEAN : ConnectSettle(a, n, ok)
  \/ \E a \in Adapters, n \in 1..MaxAttempts, ok \in BOOLEAN : CreateSettle(a, n, ok)
  \/ \E a \in Adapters, n \in 1..MaxAttempts, ok \in BOOLEAN : InitEndSettle(a, n, ok)
  \/ \E c \in CallIds : InitReturn(c)
  \/ \E c \in CallIds, ok \in BOOLEAN : QuerySettle(c, ok)
  \/ \E c \in CallIds, ok \in BOOLEAN : CloseSettle(c, ok)

----------------------------------------------------------------------------
(* Smartfetch.execute.  ex[b] is the frame of the execute call running in  *)
(* slot b: its locals, where it stands (pc), and what it has done so far.  *)
(* Items are processed one after the other; each await is a step.          *)

\* the url and authentication parameters of an item, with the JSON text of
\* the credentials getCredentials returns for that authentication
Requests ==
  {[url |-> <<"u">>, authentication |-> "none", credentials |-> <<>>],
   [url |-> <<"v">>, authentication |-> "httpBasicAuth", credentials |-> <<"c","1">>],
   [url |-> <<"v">>, authentication |-> "httpDigestAuth", credentials |-> <<"c","1">>]}

\* the cacheDuration parameter: a preset number of seconds, or 'custom' with
\* the customTtl parameter
Preset(v) == [custom |-> FALSE, value |-> Num(v)]
Custom(x) == [custom |-> TRUE, value |-> x]

Durations ==
  {Preset(300), Custom(Num(TTL_MAX)),
   Custom(Num(0)), Custom(Num(-1)), Custom(Num(TTL_MAX + 1)),
   Custom(NaN), Custom(PosInfinity)}

DefaultTable == <<"a","b","c","_","1","2","3">>
Name63 == [i \in 1..IDENT_LIMIT |-> "a"]
Name64 == [i \in 1..(IDENT_LIMIT + 1) |-> "a"]

TableNames ==
  {DefaultTable, Name63, Name64, <<"1","a","b","c">>,
   <<"a","b","c","-","d","e","f">>, <<>>}

\* the amounts by which the clock moves between two steps
Deltas == {Ms(0, 1), Ms(CapSeconds, CapMillis)}

\* an entry with a response that is not JSON, as any user of the shared map
\* can have stored it
CorruptEntry ==
  Entry(GenerateCacheKey(<<"u">>, Undefined), <<"u">>, NotJson,
        Ms(StartSeconds, 0), 300)

NoJson == [error |-> FALSE, body |-> 0, message |-> "", url |-> <<>>]

NoBatch ==
  [pc |-> "idle", run |-> 0, used |-> 0, storage |-> "none", tableName |-> <<>>,
   postgresAdapter |-> FALSE, n |-> 0, i |-> 0, authentication |-> <<>>,
   url |-> <<>>, custom |-> FALSE, customTtl |-> Num(0), ttl |-> 0,
   cacheKey |-> <<>>, cachedEntry |-> <<>>, found |-> <<>>,
   returnData |-> <<>>, log |-> <<>>, fetches |-> 0, lastOpItem |-> -1,
   thrown |-> "none", raised |-> "none", outcome |-> "none"]

InitStores ==
  /\ now = Ms(StartSeconds, 0)
  /\ ticks = 0
  /\ db = <<>>
  /\ calls = [c \in CallIds |-> NoCall]
  /\ opCount = 0

Init ==
  /\ InitStores
  /\ mem \in {<<>>, <<CorruptEntry>>}
  /\ pg = [a \in Adapters |-> Unbuilt]
  /\ ex = [b \in Batches |-> NoBatch]

\* the payload the fetch of item i of run r returns: a fresh one every time
Payload(r, i) == r * (MaxItems + 1) + i + 1

\* the entry the store of the execution in slot b holds under key k, if any (<<>> if none)
StoreEntry(b, k) ==
  IF ex[b].storage = "memory"
  THEN (IF MemHas(mem, k) THEN <<mem[MemIndex(mem, k)]>> ELSE <<>>)
  ELSE LET rows == {r \in Rows(pg[b]) : r.key = k}
       IN  IF rows = {} THEN <<>> ELSE <<EntryOf(CHOOSE r \in rows : TRUE)>>

\* the locals of the loop body, cleared when the next iteration begins
NextItem(f) ==
  [f EXCEPT !.pc = "item", !.i = @ + 1, !.url = <<>>, !.custom = FALSE,
            !.customTtl = Num(0), !.ttl = 0, !.cacheKey = <<>>,
            !.cachedEntry = <<>>, !.found = <<>>]

\* a push that pairs every result with the first item
PushPairedWithFirst(f, json, tag) ==
  NextItem([f EXCEPT !.returnData = Append(@, [json |-> json, pairedItem |-> 0]),
                     !.log = Append(@, [tag |-> tag, url |-> f.url])])

\* returnData.push({ json, pairedItem: { item: i } }) and on to the next item
Push(f, json, tag) ==
  NextItem([f EXCEPT !.returnData = Append(@, [json |-> json, pairedItem |-> f.i]),
                     !.log = Append(@, [tag |-> tag, url |-> f.url])])

ErrorJson(message, url) ==
  [error |-> TRUE, body |-> 0, message |-> message, url |-> url]

PayloadJson(p) == [NoJson EXCEPT !.body = p]

\* a check that ignores the entry it was handed and goes on to the request
ServeFromCacheIgnored(f) == [f EXCEPT !.pc = "fetch"]

\* the cache hit: the parsed response is pushed and the loop continues
ServeFromCache(f) ==
  Push(f, PayloadJson(JsonParse(f.cachedEntry[1].response)), "hit")

\* a request without its catch block: the error leaves the loop
RecordErrorRethrown(f, message) == [f EXCEPT !.pc = "finally", !.thrown = message]

\* the catch block of the request: the error becomes the item's result
RecordError(f, message) == Push(f, ErrorJson(message, f.url), "error")

\* a throw that leaves the loop: the finally block is next
Throw(f, error) == [f EXCEPT !.pc = "finally", !.thrown = error]

\* a custom TTL check that lets the item through to the request
AbortOnTtlSkipped(f) == [f EXCEPT !.pc = "fetch"]

\* the throw of the custom TTL check
AbortOnTtl(f) == Throw(f, "ttl")

\* a finally block without the try/catch around close()
FinallyErrorUncaught(thrown, closeOutcome) ==
  IF closeOutcome = "error" THEN "close" ELSE thrown

\* the error execute ends with, given the error that left the try block and
\* how close() ended: a close error is swallowed
FinallyError(thrown, closeOutcome) == thrown

\* an execute that stays in its finally block
FinishPending(f, closeOutcome) == f

Finish(f, closeOutcome) ==
  LET raised == FinallyError(f.thrown, closeOutcome)
  IN  [f EXCEPT !.pc = "done", !.raised = raised,
                !.outcome = IF raised = "none" THEN "returned" ELSE "raised"]

\* execute is called: the storage parameter is read and, for PostgreSQL, the
\* table name is validated and the adapter constructed
ExecuteStart(b, storage, n, name) ==
  LET f == [NoBatch EXCEPT !.run = ex[b].run + 1, !.used = ex[b].used + n,
                           !.storage = storage, !.n = n, !.tableName = name]
      error == IF storage = "postgres" THEN TableNameError(name) ELSE "none"
  IN  /\ ex[b].pc \in {"idle", "done"}
      /\ ex[b].run < MaxBatches
      /\ ex[b].used + n <= MaxItems
      /\ ex' = [ex EXCEPT ![b] =
           IF error # "none"
           THEN [f EXCEPT !.pc = "done", !.thrown = "tableName",
                          !.raised = "tableName", !.outcome = "raised"]
           ELSE [f EXCEPT !.pc = "item", !.postgresAdapter = (storage = "postgres")]]
      /\ pg' = [pg EXCEPT ![b] =
           IF storage = "postgres" /\ error = "none" THEN NewAdapter(name) ELSE Unbuilt]
      /\ calls' = [calls EXCEPT ![b] = NoCall]
      /\ UNCHANGED <<now, ticks, mem, db, opCount>>

\* the head of the loop body: the item's parameters are read, a custom TTL is
\* validated, the key derived and cacheAdapter.get called
ItemBegin(b, req, dur) ==
  LET f == ex[b]
      url == req.url
      credentialHash == IF req.authentication # "none"
                        THEN Some(Sha256Hex(req.credentials))
                        ELSE Undefined
      cacheKey == GenerateCacheKey(url, credentialHash)
      g == [f EXCEPT !.authentication = Append(@, req.authentication),
                     !.url = url, !.custom = dur.custom, !.customTtl = dur.value,
                     !.ttl = dur.value.v, !.cacheKey = cacheKey,
                     !.found = StoreEntry(b, cacheKey), !.lastOpItem = f.i]
      r == MemGet(mem, cacheKey, now)
  IN  /\ f.pc = "item"
      /\ f.i < f.n
      /\ IF dur.custom /\ CustomTtlRejected(dur.value)
         THEN /\ ex' = [ex EXCEPT ![b] =
                   AbortOnTtl([f EXCEPT !.authentication =
                                          Append(@, req.authentication),
                                        !.url = url, !.custom = TRUE,
                                        !.customTtl = dur.value])]
              /\ UNCHANGED <<mem, pg, calls>>
         ELSE IF f.storage = "memory"
         THEN /\ mem' = r.map
              /\ ex' = [ex EXCEPT ![b] =
                   [g EXCEPT !.pc = "check", !.cachedEntry = r.result]]
              /\ UNCHANGED <<pg, calls>>
         ELSE /\ PgInvoke(b, b, "get", cacheKey, <<>>)
              /\ ex' = [ex EXCEPT ![b] = [g EXCEPT !.pc = "await_get"]]
              /\ UNCHANGED mem
      /\ UNCHANGED <<now, ticks, db, opCount>>

\* the loop ends
LoopExit(b) ==
  /\ ex[b].pc = "item"
  /\ ex[b].i >= ex[b].n
  /\ ex' = [ex EXCEPT ![b].pc = "finally"]
  /\ UNCHANGED <<now, ticks, mem, db, pg, calls, opCount>>

\* the adapter call execute awaits has settled.  An error of get leaves the
\* loop, an error of the repair's delete is ignored, an error of set is caught
\* by the catch block of the request
AwaitAdapter(b) ==
  LET f == ex[b]
      call == calls[b]
  IN  /\ f.pc \in {"await_get", "await_delete", "await_set"}
      /\ call.phase = "done"
      /\ ex' = [ex EXCEPT ![b] =
           CASE f.pc = "await_get" ->
                  IF call.outcome = "ok"
                  THEN [f EXCEPT !.pc = "check", !.cachedEntry = call.result]
                  ELSE Throw(f, call.err)
             [] f.pc = "await_delete" -> [f EXCEPT !.pc = "fetch"]
             [] f.pc = "await_set" ->
                  IF call.outcome = "ok"
                  THEN Push(f, PayloadJson(JsonParse(call.entry[1].response)), "fetched")
                  ELSE RecordError(f, call.err)]
      /\ calls' = [calls EXCEPT ![b] = NoCall]
      /\ UNCHANGED <<now, ticks, mem, db, pg, opCount>>

\* a check that measures the entry's age against the ttl the item asks for
CheckCacheRequestedTtl(b) ==
  LET f == ex[b]
      hit == /\ f.cachedEntry # <<>>
             /\ IsCacheValid([f.cachedEntry[1] EXCEPT !.ttl = f.ttl], now)
  IN  /\ f.pc = "check"
      /\ IF hit /\ IsJson(f.cachedEntry[1].response)
         THEN /\ ex' = [ex EXCEPT ![b] = ServeFromCache(f)]
              /\ UNCHANGED <<mem, pg, calls>>
         ELSE IF hit /\ f.storage = "memory"
         THEN /\ mem' = MemDelete(mem, f.cacheKey)
              /\ ex' = [ex EXCEPT ![b].pc = "fetch"]
              /\ UNCHANGED <<pg, calls>>
         ELSE IF hit
         THEN /\ PgInvoke(b, b, "delete", f.cacheKey, <<>>)
              /\ ex' = [ex EXCEPT ![b].pc = "await_delete"]
              /\ UNCHANGED mem
         ELSE /\ ex' = [ex EXCEPT ![b].pc = "fetch"]
              /\ UNCHANGED <<mem, pg, calls>>
      /\ UNCHANGED <<now, ticks, db, opCount>>

\* if (cachedEntry && isCacheValid(cachedEntry)): the hit, or the repair of a
\* corrupt entry by delete, or on to the request
CheckCache(b) ==
  LET f == ex[b]
      hit == f.cachedEntry # <<>> /\ IsCacheValid(f.cachedEntry[1], now)
  IN  /\ f.pc = "check"
      /\ IF hit /\ IsJson(f.cachedEntry[1].response)
         THEN /\ ex' = [ex EXCEPT ![b] = ServeFromCache(f)]
              /\ UNCHANGED <<mem, pg, calls>>
         ELSE IF hit /\ f.storage = "memory"
         THEN /\ mem' = MemDelete(mem, f.cacheKey)
              /\ ex' = [ex EXCEPT ![b].pc = "fetch"]
              /\ UNCHANGED <<pg, calls>>
         ELSE IF hit
         THEN /\ PgInvoke(b, b, "delete", f.cacheKey, <<>>)
              /\ ex' = [ex EXCEPT ![b].pc = "await_delete"]
              /\ UNCHANGED mem
         ELSE /\ ex' = [ex EXCEPT ![b].pc = "fetch"]
              /\ UNCHANGED <<mem, pg, calls>>
      /\ UNCHANGED <<now, ticks, db, opCount>>

\* the HTTP request settles; on success cacheAdapter.set is called with the
\* new entry, on failure the catch block records the error
Fetch(b, ok) ==
  LET f == [ex[b] EXCEPT !.fetches = @ + 1, !.lastOpItem = ex[b].i]
      response == Payload(f.run, f.i)
      entry == Entry(f.cacheKey, f.url, JsonStringify(response), now, f.ttl)
  IN  /\ ex[b].pc = "fetch"
      /\ IF ~ok
         THEN /\ ex' = [ex EXCEPT ![b] = RecordError(f, "Network error")]
              /\ UNCHANGED <<mem, pg, calls>>
         ELSE IF f.storage = "memory"
         THEN /\ mem' = MemSet(mem, entry, now)
              /\ ex' = [ex EXCEPT ![b] = Push(f, PayloadJson(response), "fetched")]
              /\ UNCHANGED <<pg, calls>>
         ELSE /\ PgInvoke(b, b, "set", f.cacheKey, <<entry>>)
              /\ ex' = [ex EXCEPT ![b] = [f EXCEPT !.pc = "await_set"]]
              /\ UNCHANGED mem
      /\ UNCHANGED <<now, ticks, db, opCount>>

\* the finally block: close() of the PostgreSQL adapter, if there is one
Finally(b) ==
  /\ ex[b].pc = "finally"
  /\ IF ex[b].postgresAdapter
     THEN /\ PgInvokeClose(b, b)
          /\ ex' = [ex EXCEPT ![b].pc = "await_close"]
     ELSE /\ ex' = [ex EXCEPT ![b] = Finish(@, "none")]
          /\ UNCHANGED <<pg, calls>>
  /\ UNCHANGED <<now, ticks, mem, db, opCount>>

\* close() has settled: execute returns [returnData] or raises
AwaitClose(b) ==
  /\ ex[b].pc = "await_close"
  /\ calls[b].phase = "done"
  /\ ex' = [ex EXCEPT ![b] = Finish(@, calls[b].outcome)]
  /\ UNCHANGED <<now, ticks, mem, db, pg, calls, opCount>>

\* time passes.  The clock is read by the get and the set of the memory
\* adapter, by the validity check and when the new entry is built, so it is
\* enough to let it move right before one of these
Tick(d) ==
  /\ ticks < MaxTicks
  /\ \E b \in Batches : ex[b].pc \in {"item", "check", "fetch"}
  /\ now' = MsAdd(now, d)
  /\ ticks' = ticks + 1
  /\ UNCHANGED <<mem, db, pg, calls, opCount, ex>>

\* executions follow one another in slot 1
Next ==
  \/ AdapterStep
  \/ \E storage \in {"memory", "postgres"}, n \in 0..MaxItems :
       \E name \in (IF storage = "postgres" THEN TableNames ELSE {<<>>}) :
         ExecuteStart(1, storage, n, name)
  \/ \E req \in Requests, dur \in Durations : ItemBegin(1, req, dur)
  \/ LoopExit(1)
  \/ AwaitAdapter(1)
  \/ CheckCache(1)
  \/ \E ok \in BOOLEAN : Fetch(1, ok)
  \/ Finally(1)
  \/ AwaitClose(1)
  \/ \E d \in Deltas : Tick(d)

Spec == Init /\ [][Next]_vars

----------------------------------------------------------------------------
(* Callers of one adapter that do not wait for one another: any number of  *)
(* get, set, delete and close calls may overlap on adapter 1               *)

ClientKeys == {<<"k","1">>}

ClientEntry(k) == Entry(k, <<"u">>, JsonStringify(1), now, 300)

InitAdapter ==
  /\ InitStores
  /\ mem = <<>>
  /\ pg = [a \in Adapters |-> IF a = 1 THEN NewAdapter(DefaultTable) ELSE Unbuilt]
  /\ ex = [b \in Batches |-> NoBatch]

ClientCall(c, op, k) ==
  /\ calls[c].phase = "idle"
  /\ opCount < MaxOps
  /\ PgInvoke(c, 1, op, k, IF op = "set" THEN <<ClientEntry(k)>> ELSE <<>>)
  /\ opCount' = opCount + 1
  /\ UNCHANGED <<now, ticks, mem, db, ex>>

ClientClose(c) ==
  /\ calls[c].phase = "idle"
  /\ opCount < MaxOps
  /\ PgInvokeClose(c, 1)
  /\ opCount' = opCount + 1
  /\ UNCHANGED <<now, ticks, mem, db, ex>>

\* the caller has its answer and may call again
ClientReturn(c) ==
  /\ calls[c].phase = "done"
  /\ calls' = [calls EXCEPT ![c] = NoCall]
  /\ UNCHANGED <<now, ticks, mem, db, pg, opCount, ex>>

NextAdapter ==
  \/ AdapterStep
  \/ \E c \in Callers, op \in {"get", "set", "delete"}, k \in ClientKeys :
       ClientCall(c, op, k)
  \/ \E c \in Callers : ClientClose(c)
  \/ \E c \in Callers : ClientReturn(c)

SpecAdapter == InitAdapter /\ [][NextAdapter]_vars

----------------------------------------------------------------------------
(* Claims on the adapter's initialization                                  *)

\* the outcome a caller of attempt n observes
AttemptOutcome(att) == IF att.phase = "resolved" THEN "ok" ELSE att.err

\* C1: however many get/set/delete calls are issued before the first
\* initialization of an adapter has completed, connect has been called exactly
\* once and the create-table statement at most once (exactly once when the
\* initialization succeeded), no two connect-and-provision sequences are ever
\* in flight together, and every caller that awaited a sequence observes that
\* sequence's outcome.
C1_SingleProvisioning ==
  \A a \in Adapters :
    LET A == pg[a]
    IN  /\ Cardinality(InFlight(A)) <= 1
        /\ (Len(A.attempts) >= 1 /\ ~Settled(A.attempts[1]))
             => A.connectCalls = 1 /\ A.createCalls <= 1
        /\ (Len(A.attempts) = 1 /\ A.attempts[1].phase = "resolved")
             => A.connectCalls = 1 /\ A.createCalls = 1
        /\ \A c \in CallIds :
             (calls[c].adapter = a /\ calls[c].att > 0 /\ calls[c].seen # "none")
               => calls[c].seen = AttemptOutcome(A.attempts[calls[c].att])

\* two callers whose calls overlapped the first initialization have both
\* seen it succeed, after one connect and one create-table
C1_Witness ==
  /\ calls[1].att = 1 /\ calls[2].att = 1
  /\ calls[1].seen = "ok" /\ calls[2].seen = "ok"
  /\ pg[1].connectCalls = 1 /\ pg[1].createCalls = 1

\* C2: after a failed connect-and-provision attempt, at either step, the
\* guard no longer holds that attempt's promise, so the next operation starts
\* a fresh attempt
C2_GuardResetOnFailure ==
  \A a \in Adapters : \A n \in 1..Len(pg[a].attempts) :
    pg[a].attempts[n].phase = "rejected" => pg[a].initPromise # n

----------------------------------------------------------------------------
(* Claims on the batch run of execute                                      *)

\* C3: once a batch run with the PostgreSQL backend has finished, returning
\* or raising, no connection of its adapter is open, no step of the adapter
\* is still in flight, end has been called once for every connection that
\* was opened and never without one.
C3_ConnectionsEnded ==
  \A b \in Batches :
    (ex[b].pc = "done" /\ ex[b].postgresAdapter)
      => /\ ~pg[b].open
         /\ pg[b].endCalls = pg[b].connectOk
         /\ InFlight(pg[b]) = {}
         /\ calls[b].phase \in {"idle", "done"}

\* a batch that opened a connection, went through a failed request and a
\* later abort, and has finished with the connection ended
C3_Witness ==
  /\ ex[1].pc = "done" /\ ex[1].postgresAdapter
  /\ ex[1].outcome = "raised"
  /\ Len(ex[1].log) = 1 /\ ex[1].log[1].tag = "error"
  /\ pg[1].connectOk = 1 /\ pg[1].endCalls = 1 /\ ~pg[1].open

\* C4: when close() fails at the end of a batch, execute ends as it would
\* have without the failure: it raises the error that left the loop, or, if
\* there was none, returns the results with one entry per item.
C4_CloseFailureSwallowed ==
  \A b \in Batches :
    (ex[b].pc = "done" /\ calls[b].op = "close" /\ calls[b].outcome = "error")
      => /\ ex[b].raised = ex[b].thrown
         /\ ex[b].raised # "close"
         /\ ex[b].thrown = "none"
              => ex[b].outcome = "returned" /\ Len(ex[b].returnData) = ex[b].n
         /\ ex[b].thrown # "none" => ex[b].outcome = "raised"

\* close() failed after the loop was left by the custom TTL error of the
\* second item, and that error is the one execute raised
C4_Witness ==
  /\ ex[1].pc = "done"
  /\ calls[1].op = "close" /\ calls[1].outcome = "error"
  /\ ex[1].thrown = "ttl" /\ ex[1].raised = "ttl"
  /\ Len(ex[1].returnData) = 1

\* C5: a failed request never leaves the loop: no execution ends with the
\* request's error, the item gets a result of the error shape (error, message,
\* url) paired with its index, every item handled so far has exactly one
\* result in input order, and a batch that nothing else aborts returns one
\* result per item.
C5_FetchErrorRecorded ==
  \A b \in Batches :
    LET f == ex[b]
    IN  /\ f.thrown # "Network error" /\ f.raised # "Network error"
        /\ Len(f.log) = Len(f.returnData)
        /\ f.pc \in {"item", "await_get", "check", "await_delete", "fetch", "await_set"}
             => Len(f.returnData) = f.i
        /\ \A j \in 1..Len(f.returnData) :
             /\ f.returnData[j].pairedItem = j - 1
             /\ f.log[j].tag = "error"
                  => /\ f.returnData[j].json.error
                     /\ f.returnData[j].json.message # ""
                     /\ f.returnData[j].json.url = f.log[j].url
             /\ f.log[j].tag # "error" => ~f.returnData[j].json.error
        /\ (f.pc = "done" /\ f.thrown = "none")
             => f.outcome = "returned" /\ Len(f.returnData) = f.n

\* the request of the first item failed, the second item was fetched, and
\* execute returned both results
C5_Witness ==
  /\ ex[1].pc = "done" /\ ex[1].outcome = "returned" /\ ex[1].n = 2
  /\ ex[1].returnData[1].json = ErrorJson("Network error", ex[1].log[1].url)
  /\ ex[1].log[2].tag = "fetched" /\ ~ex[1].returnData[2].json.error

\* C6 as stated: a batch that aborts on a custom TTL has made no request and
\* no cache lookup, write or delete for any of its items.
C6_NothingBeforeTtlAbort ==
  \A b \in Batches :
    ex[b].thrown = "ttl" => ex[b].fetches = 0 /\ ex[b].lastOpItem = -1

\* C6, amended: the custom TTL of item i is checked when the loop reaches item
\* i.  A rejected TTL makes execute leave the loop there and raise: for item i
\* and the items after it there is no request, no cache operation and no
\* result, while the items before i have been handled, with their requests
\* made and their results collected.
C6_TtlAbortsAtItem ==
  \A b \in Batches :
    LET f == ex[b]
    IN  /\ (f.custom /\ CustomTtlRejected(f.customTtl))
             => f.thrown = "ttl" /\ f.pc \in {"finally", "await_close", "done"}
        /\ f.thrown = "ttl"
             => /\ f.custom /\ CustomTtlRejected(f.customTtl)
                /\ f.lastOpItem = f.i - 1
                /\ Len(f.returnData) = f.i
                /\ f.fetches <= f.i
                /\ f.pc = "done" => f.outcome = "raised" /\ f.raised = "ttl"

\* the second item carried the rejected TTL: the first had been fetched
\* before the batch aborted
C6_Witness ==
  /\ ex[1].pc = "done" /\ ex[1].thrown = "ttl" /\ ex[1].raised = "ttl"
  /\ ex[1].i = 1 /\ ex[1].fetches = 1 /\ ex[1].lastOpItem = 0
  /\ ex[1].log = <<[tag |-> "fetched", url |-> <<"u">>]>>

C8_TableNameValidated ==
  \A b \in Batches :
    LET f == ex[b]
        name == f.tableName
        letters == Lower \cup Upper
        accepted == /\ Len(name) >= 1
                    /\ name[1] \in letters \cup {"_"}
                    /\ \A k \in 2..Len(name) : name[k] \in letters \cup Digit \cup {"_"}
                    /\ Len(name) <= 63
    IN  f.storage = "postgres"
          => /\ f.thrown = "tableName" <=> ~accepted
             /\ name \in {<<"1","a","b","c">>, <<"a","b","c","-","d","e","f">>}
                  => ~accepted
             /\ Len(name) = 64 => ~accepted
             /\ name = <<"a","b","c","_","1","2","3">> => accepted
             /\ accepted => f.postgresAdapter /\ pg[b].built /\ pg[b].tableName = name
             /\ ~accepted
                  => /\ f.pc = "done" /\ f.outcome = "raised" /\ f.raised = "tableName"
                     /\ ~f.postgresAdapter /\ pg[b] = Unbuilt
                     /\ f.i = 0 /\ f.fetches = 0 /\ f.lastOpItem = -1
                     /\ f.returnData = <<>>

\* a name of 64 letters has been rejected for a batch of two items
C8_Witness ==
  /\ ex[1].storage = "postgres" /\ Len(ex[1].tableName) = 64
  /\ ex[1].n = 2 /\ ex[1].raised = "tableName"
  /\ pg[1].connectCalls = 0

\* C9: when the entry handed back by the lookup is present, valid and holds
\* JSON, the step that handles it appends the stored payload as the item's
\* result and moves to the next item: no request is made, nothing is sent to
\* the adapter, and the shared map and the table are left as they were.  The
\* lookup that hands back a valid entry leaves the store unchanged as well,
\* and the entry is the stored one, cachedAt and ttl included.
C9_HitServedUntouched ==
  [][LET f == ex[1]
         g == ex'[1]
         hit == /\ f.pc = "check"
                /\ f.cachedEntry # <<>>
                /\ IsCacheValid(f.cachedEntry[1], now)
                /\ IsJson(f.cachedEntry[1].response)
         looked == /\ f.pc \in {"item", "await_get"}
                   /\ g.pc = "check"
                   /\ g.cachedEntry # <<>>
     IN  /\ (hit /\ g # f)
              => /\ g.returnData =
                      Append(f.returnData,
                             [json |-> PayloadJson(JsonParse(f.cachedEntry[1].response)),
                              pairedItem |-> f.i])
                 /\ g.pc = "item" /\ g.i = f.i + 1
                 /\ g.fetches = f.fetches
                 /\ g.thrown = "none"
                 /\ mem' = mem /\ db' = db /\ pg' = pg /\ calls' = calls
         /\ looked
              => /\ mem' = mem /\ db' = db
                 /\ g.cachedEntry = g.found
    ]_vars

\* a second execution has answered its item from the entry the first one
\* stored, without a request
C9_Witness ==
  /\ ex[1].run = 2 /\ ex[1].pc = "done" /\ ex[1].n = 1
  /\ ex[1].log = <<[tag |-> "hit", url |-> <<"u">>]>>
  /\ ex[1].fetches = 0
  /\ ex[1].returnData[1].json = PayloadJson(Payload(1, 0))

\* C10: an execution never goes on to the request for an item whose key has,
\* in the store, a fetched entry that is younger than its own TTL (the time
\* is strictly before cachedAt + ttl * 1000 ms).
C10_ServedUntilTtl ==
  \A b \in Batches :
    LET f == ex[b]
    IN  (f.pc = "fetch" /\ f.found # <<>>)
          => ~(/\ IsJson(f.found[1].response)
               /\ MsLess(now, MsAdd(f.found[1].cachedAt, Times1000(f.found[1].ttl))))

----------------------------------------------------------------------------
(* isCacheValid on its own: an entry and a reading of the clock are drawn, *)
(* and a caller evaluates the predicate                                    *)

MaxCheckers == 1

\* the ttl of the entry, in seconds: around 0, the presets, and around the cap
ValidityTtls == {-1, 0, 1, 300, CapSeconds, CapSeconds + 1, 2592000, TTL_MAX}

ValidityStarts == {Ms(StartSeconds, 0), Ms(StartSeconds, 500)}

\* Date.now() - cachedAt
ValidityOffsets ==
  {Ms(-1, 999), Ms(0, 0), Ms(0, 999), Ms(1, 0), Ms(1, 1),
   Ms(299, 999), Ms(300, 0),
   Ms(CapSeconds, 0), Ms(CapSeconds, CapMillis - 1), Ms(CapSeconds, CapMillis),
   Ms(CapSeconds, CapMillis + 1), Ms(CapSeconds + 1, 0),
   Ms(2592000, 0), Ms(TTL_MAX - 1, 999), Ms(TTL_MAX, 0)}

InitValidity ==
  /\ \E c \in ValidityStarts, off \in ValidityOffsets, t \in ValidityTtls :
       /\ mem = <<Entry(<<"k">>, <<"u">>, JsonStringify(1), c, t)>>
       /\ now = MsAdd(c, off)
  /\ ticks = 0
  /\ db = <<>>
  /\ calls = [c \in CallIds |-> NoCall]
  /\ opCount = 0
  /\ pg = [a \in Adapters |-> Unbuilt]
  /\ ex = [b \in Batches |-> NoBatch]

\* caller c evaluates isCacheValid(entry) and keeps the answer
ValidityCheck(c) ==
  /\ calls[c].phase = "idle"
  /\ calls' = [calls EXCEPT ![c] =
       [NoCall EXCEPT !.op = "isCacheValid", !.phase = "done",
                      !.entry = <<mem[1]>>,
                      !.outcome = IF IsCacheValid(mem[1], now)
                                  THEN "valid" ELSE "expired"]]
  /\ UNCHANGED <<now, ticks, mem, db, pg, opCount, ex>>

NextValidity == \E c \in 1..MaxCheckers : ValidityCheck(c)

SpecValidity == InitValidity /\ [][NextValidity]_vars

\* now < cachedAt + min(ttl * 1000, 2147483647), computed on whole numbers.
\* With ds and dm the differences of the seconds and of the milliseconds,
\* now - cachedAt = ds * 1000 + dm.  Beyond CapSeconds + 1 seconds the
\* difference is above the cap; up to there both sides are compared after
\* 10^9 has been taken from each, which keeps them within 32 bits
ValidAt(entry, t) ==
  LET ds == t.s - entry.cachedAt.s
      dm == t.m - entry.cachedAt.m
      lim == IF entry.ttl > 2147483 THEN 2147483647 ELSE entry.ttl * 1000
  IN  IF ds > 2147484 THEN FALSE
      ELSE (ds - 1000000) * 1000 + dm < lim - 1000000000

\* C11: isCacheValid(entry) at time now is true iff
\* now < cachedAt + min(ttl * 1000, 2147483647); at now = expiry it is false;
\* a ttl above the cap is not an error: the entry counts as expiring
\* 2147483647 ms after cachedAt.
C11_ValidityIsCappedComparison ==
  \A c \in CallIds :
    (calls[c].op = "isCacheValid" /\ calls[c].phase = "done")
      => LET e == calls[c].entry[1]
             capped == MsAdd(e.cachedAt, Ms(CapSeconds, CapMillis))
         IN  /\ calls[c].outcome \in {"valid", "expired"}
             /\ calls[c].outcome = "valid" <=> ValidAt(e, now)
             /\ (e.ttl \in 0..CapSeconds /\ now = MsAdd(e.cachedAt, Ms(e.ttl, 0)))
                  => calls[c].outcome = "expired"
             /\ (e.ttl > CapSeconds /\ now = capped) => calls[c].outcome = "expired"
             /\ (e.ttl > CapSeconds /\ MsLess(now, capped) /\ ~MsLess(now, e.cachedAt))
                  => calls[c].outcome = "valid"
             /\ (e.ttl > CapSeconds /\ MsLess(capped, now))
                  => calls[c].outcome = "expired"

\* an entry with a ttl of one year has been found expired exactly
\* 2147483647 ms after it was cached
C11_Witness ==
  /\ calls[1].op = "isCacheValid" /\ calls[1].outcome = "expired"
  /\ mem[1].ttl = TTL_MAX
  /\ now = MsAdd(mem[1].cachedAt, Ms(CapSeconds, CapMillis))

----------------------------------------------------------------------------
(* Claims on the repair of a corrupt entry                                 *)

\* C12: when the entry handed back by the lookup is valid but its response is
\* not JSON, the step that handles it raises nothing and produces no result:
\* it deletes the entry and goes on to the request (an error of the delete
\* leads to the request all the same).  When that request succeeds, the
\* item's result is the fetched payload and the store holds, under the key,
\* the entry built from it, which a get at that moment returns.
C12_CorruptEntryRepaired ==
  [][LET f == ex[1]
         g == ex'[1]
         corrupt == /\ f.cachedEntry # <<>>
                    /\ IsCacheValid(f.cachedEntry[1], now)
                    /\ ~IsJson(f.cachedEntry[1].response)
         repairing == f.found # <<>> /\ ~IsJson(f.found[1].response)
         fresh == Entry(f.cacheKey, f.url, JsonStringify(Payload(f.run, f.i)),
                        now, f.ttl)
     IN  /\ (f.pc = "check" /\ corrupt /\ g # f)
              => /\ g.pc \in {"fetch", "await_delete"}
                 /\ g.thrown = "none"
                 /\ g.returnData = f.returnData
                 /\ g.fetches = f.fetches
                 /\ f.storage = "memory"
                      => g.pc = "fetch" /\ ~MemHas(mem', f.cacheKey)
                 /\ g.pc = "await_delete"
                      => calls'[1].op = "delete" /\ calls'[1].key = f.cacheKey
         /\ (f.pc = "await_delete" /\ g # f)
              => g.pc = "fetch" /\ g.thrown = "none"
         /\ (f.pc = "fetch" /\ repairing /\ g.pc = "item"
               /\ g.log[Len(g.log)].tag = "fetched")
              => /\ g.returnData[Len(g.returnData)] =
                      [json |-> PayloadJson(Payload(f.run, f.i)), pairedItem |-> f.i]
                 /\ MemGet(mem', f.cacheKey, now).result = <<fresh>>
                 /\ Cardinality({n \in 1..Len(mem') : mem'[n].key = f.cacheKey}) = 1
    ]_vars

\* the corrupt entry has been deleted and the request of the item is next
C12_Witness ==
  /\ ex[1].pc = "fetch" /\ ex[1].storage = "memory"
  /\ ex[1].found = <<CorruptEntry>>
  /\ ~MemHas(mem, ex[1].cacheKey)
  /\ ex[1].returnData = <<>> /\ ex[1].thrown = "none"

----------------------------------------------------------------------------
(* The shared map near its limit.  The store starts as PreFill sets into   *)
(* an empty map have left it; instances of MemoryCacheAdapter then set,    *)
(* get and delete.  Their methods contain no await, so each call is one    *)
(* step.                                                                   *)

PreFill == 998

DigitChars == <<"0","1","2","3","4","5","6","7","8","9">>

\* `key-${n}` for 0 <= n < 10000
MemKey(n) ==
  <<"k","e","y","-">> \o
  <<DigitChars[((n \div 1000) % 10) + 1], DigitChars[((n \div 100) % 10) + 1],
    DigitChars[((n \div 10) % 10) + 1], DigitChars[(n % 10) + 1]>>

\* the entry of the n-th set; the second one lives for a second only
FillEntry(n) ==
  Entry(MemKey(n), <<"u">>, JsonStringify(n), Ms(StartSeconds, 0),
        IF n = 2 THEN 1 ELSE 300)

\* the map m after the sets of FillEntry(lo) .. FillEntry(hi), in this order
\* (the range is halved, and m is evaluated on entry, to keep the evaluation
\* shallow)
RECURSIVE FillFrom(_, _, _)
FillFrom(m, lo, hi) ==
  IF lo > hi \/ Len(m) < 0 THEN m
  ELSE IF lo = hi THEN MemSet(m, FillEntry(lo), Ms(StartSeconds, 0))
  ELSE LET mid == (lo + hi) \div 2
       IN  FillFrom(FillFrom(m, lo, mid), mid + 1, hi)

\* the map after the sets of FillEntry(1) .. FillEntry(n) into an empty one
Filled(n) == FillFrom(<<>>, 1, n)

InitCapacity ==
  /\ InitStores
  /\ mem = Filled(PreFill)
  /\ pg = [a \in Adapters |-> Unbuilt]
  /\ ex = [b \in Batches |-> NoBatch]

\* the keys callers come back to: the two oldest ones
OldKeys == {MemKey(1), MemKey(2)}

\* adapter.set(entry) through instance c, with a key never used before or
\* with one of the oldest ones
CapSet(c, k) ==
  LET e == Entry(k, <<"u">>, JsonStringify(PreFill + opCount + 1), now, 300)
  IN  /\ opCount < MaxOps
      /\ k \in OldKeys \cup {MemKey(PreFill + opCount + 1)}
      /\ mem' = MemSet(mem, e, now)
      /\ calls' = [calls EXCEPT ![c] =
           [NoCall EXCEPT !.op = "set", !.phase = "done", !.key = k,
                          !.entry = <<e>>, !.outcome = "ok"]]
      /\ opCount' = opCount + 1
      /\ UNCHANGED <<now, ticks, db, pg, ex>>

\* adapter.get(key) through instance c
CapGet(c, k) ==
  LET r == MemGet(mem, k, now)
  IN  /\ mem' = r.map
      /\ calls' = [calls EXCEPT ![c] =
           [NoCall EXCEPT !.op = "get", !.phase = "done", !.key = k,
                          !.result = r.result, !.outcome = "ok"]]
      /\ UNCHANGED <<now, ticks, db, pg, opCount, ex>>

\* adapter.delete(key) through instance c
CapDelete(c, k) ==
  /\ opCount < MaxOps
  /\ mem' = MemDelete(mem, k)
  /\ calls' = [calls EXCEPT ![c] =
       [NoCall EXCEPT !.op = "delete", !.phase = "done", !.key = k,
                      !.outcome = "ok"]]
  /\ opCount' = opCount + 1
  /\ UNCHANGED <<now, ticks, db, pg, ex>>

\* a second passes
CapTick ==
  /\ ticks < MaxTicks
  /\ now' = MsAdd(now, Ms(1, 0))
  /\ ticks' = ticks + 1
  /\ UNCHANGED <<mem, db, pg, calls, opCount, ex>>

NextCapacity ==
  \/ \E c \in Callers, k \in OldKeys \cup {MemKey(PreFill + opCount + 1)} : CapSet(c, k)
  \/ \E c \in Callers, k \in OldKeys : CapGet(c, k)
  \/ \E c \in Callers : CapDelete(c, MemKey(1))
  \/ CapTick

SpecCapacity == InitCapacity /\ [][NextCapacity]_vars

----------------------------------------------------------------------------
(* Claims on the memory adapter                                            *)

\* C13: whatever get, set and delete calls the instances make, the shared map
\* holds at most MAX_CACHE_ENTRIES = 1000 entries.
C13_MapBounded == Len(mem) <= 1000

\* the map has been at its limit and a further set has left it there
C13_Witness ==
  /\ Len(mem) = 1000
  /\ mem[1000].key = MemKey(PreFill + 3)
  /\ opCount = 3

\* C14: eviction follows insertion order and reads do not affect it.  A set
\* first drops the expired entries; if 1000 or more are left it drops the
\* oldest-inserted ones until 999 are left; then the entry replaces the one
\* with its key in place, or goes last.  A get changes nothing but the expired
\* entry it meets.  After 1001 sets of distinct unexpired keys into an empty
\* map, with gets of the oldest keys in between, the map holds exactly the
\* last 1000 keys in insertion order: the first key is gone and the last one
\* present.
C14_FifoEviction ==
  [][\A c \in Callers :
       LET call == calls'[c]
           live == SelectSeq(mem, LAMBDA x : ValidAt(x, now))
           drop == IF Len(live) >= 1000 THEN Len(live) - 999 ELSE 0
           kept == SubSeq(live, drop + 1, Len(live))
           e == call.entry[1]
       IN  /\ (call # calls[c] /\ call.op = "set")
                => mem' = IF \E i \in 1..Len(kept) : kept[i].key = e.key
                          THEN [i \in 1..Len(kept) |->
                                  IF kept[i].key = e.key THEN e ELSE kept[i]]
                          ELSE Append(kept, e)
           /\ (call # calls[c] /\ call.op = "get")
                => \/ mem' = mem /\ call.result # <<>>
                   \/ mem' = SelectSeq(mem, LAMBDA x : x.key # call.key)
                        /\ call.result = <<>>
           /\ (/\ opCount' = 3 /\ ticks' = 0 /\ Len(mem') >= 3
               /\ \A j \in 0..2 :
                    mem'[Len(mem') - j].key = MemKey(PreFill + 3 - j))
                => /\ Len(mem') = 1000
                   /\ \A i \in 1..1000 :
                        mem'[i].key = MemKey(PreFill + 3 - 1000 + i)
                   /\ \A i \in 1..1000 : mem'[i].key # MemKey(PreFill + 3 - 1000)
    ]_vars

\* the 1001st distinct key has been set: the first key is reported absent,
\* the second is now the oldest, the last one is present
C14_Witness ==
  /\ opCount = 3 /\ ticks = 0
  /\ Len(mem) = 1000
  /\ mem[1].key = MemKey(2) /\ mem[1000].key = MemKey(1001)
  /\ calls[1].op = "get" /\ calls[1].key = MemKey(1) /\ calls[1].result = <<>>
  /\ calls[2].op = "set" /\ calls[2].key = MemKey(1001)

\* the entries the map m holds under key k
Under(m, k) == {m[i] : i \in {j \in 1..Len(m) : m[j].key = k}}

\* C15: get(k) returns the entry the map holds under k, with every field as
\* stored, iff there is one and it is valid at the time of the get; it then
\* leaves the map alone.  If the entry is there but expired, get returns
\* absent and the entry is gone from the map afterwards.  What the map holds
\* under a key is the entry of the latest set of that key: a step either
\* leaves it, removes it, or is a set that puts its own entry there.
C15_GetReturnsValidEntry ==
  [][\A c \in Callers :
       LET call == calls'[c]
           held == Under(mem, call.key)
       IN  /\ (call # calls[c] /\ call.op = "get")
                => /\ call.outcome = "ok"
                   /\ call.result # <<>>
                        <=> \E e \in held : ValidAt(e, now)
                   /\ call.result # <<>>
                        => /\ held = {call.result[1]}
                           /\ ValidAt(call.result[1], now)
                           /\ mem' = mem
                   /\ (call.result = <<>> /\ held # {})
                        => /\ Under(mem', call.key) = {}
                           /\ Len(mem') = Len(mem) - 1
                   /\ held = {} => mem' = mem
           /\ (call # calls[c] /\ call.op = "set")
                => Under(mem', call.key) = {call.entry[1]}
           /\ \A k \in OldKeys :
                \/ Under(mem', k) = Under(mem, k)
                \/ Under(mem', k) = {}
                \/ \E d \in Callers :
                     /\ calls'[d] # calls[d] /\ calls'[d].op = "set"
                     /\ Under(mem', k) = {calls'[d].entry[1]}
    ]_vars

\* a second after it was stored with a ttl of one second, the second key was
\* looked up: get reported it absent and it is gone from the map
C15_Witness ==
  /\ ticks = 1 /\ opCount = 0
  /\ calls[1].op = "get" /\ calls[1].key = MemKey(2) /\ calls[1].result = <<>>
  /\ Under(mem, MemKey(2)) = {}
  /\ Len(mem) = PreFill - 1

----------------------------------------------------------------------------
(* Both adapters side by side: callers that do not wait for one another    *)
(* work on the shared memory map and on PostgreSQL adapter 1               *)

Backends == {"memory", "postgres"}

StoreKeys == {<<"k","1">>, <<"k","2">>}

\* the two entries a caller may set under key k: they differ in every field
\* but the key
StoreEntries(k) ==
  {Entry(k, <<"u">>, JsonStringify(1), now, 300),
   Entry(k, <<"v">>, JsonStringify(2), Ms(StartSeconds - 1, 0), 600)}

\* a call of the memory adapter by c: none of its methods awaits, so the call
\* is over in one step
MemInvoke(c, op, k, e) ==
  LET r == MemGet(mem, k, now)
      call == [NoCall EXCEPT !.op = op, !.phase = "done", !.key = k,
                             !.entry = e, !.outcome = "ok"]
  IN  /\ mem' = CASE op = "get" -> r.map
                  [] op = "set" -> MemSet(mem, e[1], now)
                  [] op = "delete" -> MemDelete(mem, k)
                  [] op = "close" -> mem
      /\ calls' = [calls EXCEPT ![c] =
           IF op = "get" THEN [call EXCEPT !.result = r.result] ELSE call]

\* caller c calls get, set or delete of one of the adapters
StoreCall(c, backend, op, k, e) ==
  /\ calls[c].phase = "idle"
  /\ opCount < MaxOps
  /\ IF backend = "memory"
     THEN MemInvoke(c, op, k, e) /\ UNCHANGED pg
     ELSE PgInvoke(c, 1, op, k, e) /\ UNCHANGED mem
  /\ opCount' = opCount + 1
  /\ UNCHANGED <<now, ticks, db, ex>>

\* caller c calls close of one of the adapters
StoreClose(c, backend) ==
  /\ calls[c].phase = "idle"
  /\ opCount < MaxOps
  /\ IF backend = "memory"
     THEN MemInvoke(c, "close", <<>>, <<>>) /\ UNCHANGED pg
     ELSE PgInvokeClose(c, 1) /\ UNCHANGED mem
  /\ opCount' = opCount + 1
  /\ UNCHANGED <<now, ticks, db, ex>>

NextStores ==
  \/ AdapterStep
  \/ \E c \in Callers, backend \in Backends, op \in {"get", "delete"}, k \in StoreKeys :
       StoreCall(c, backend, op, k, <<>>)
  \/ \E c \in Callers, backend \in Backends, k \in StoreKeys :
       \E e \in StoreEntries(k) : StoreCall(c, backend, "set", k, <<e>>)
  \/ \E c \in Callers, backend \in Backends : StoreClose(c, backend)
  \/ \E c \in Callers : ClientReturn(c)

SpecStores == InitAdapter /\ [][NextStores]_vars

\* the positions of key k in the map, and the rows of key k in the table
Positions(m, k) == {i \in 1..Len(m) : m[i].key = k}
RowsOf(rows, k) == {r \in rows : r.key = k}

\* a step in which caller c calls `op` of the memory adapter
MemStep(c, op) ==
  /\ calls[c].phase = "idle"
  /\ calls'[c].phase = "done"
  /\ calls'[c].adapter = 0
  /\ calls'[c].op = op

\* a step in which the statement of c's `op` on the PostgreSQL adapter settles
PgSettleStep(c, op) ==
  /\ calls[c].phase = "query"
  /\ calls[c].op = op
  /\ calls'[c].phase = "done"

\* C16: in both backends a key identifies at most one entry, and a set
\* replaces every field of the entry stored under its key: after the set the
\* store holds under that key exactly the entry that was set, and a get hands
\* back that entry and nothing of the one before
C16_SetReplaces ==
  [][ /\ \A k \in StoreKeys :
           /\ Cardinality(Positions(mem', k)) <= 1
           /\ Cardinality(RowsOf(Rows(pg[1])', k)) <= 1
      /\ \A c \in Callers :
           /\ MemStep(c, "set") =>
                LET e == calls'[c].entry[1]
                IN  /\ Under(mem', e.key) = {e}
                    /\ MemGet(mem', e.key, now).result = <<e>>
                    /\ \A k \in StoreKeys \ {e.key} : Under(mem', k) = Under(mem, k)
           /\ PgSettleStep(c, "set") /\ calls'[c].outcome = "ok" =>
                LET e == calls[c].entry[1]
                IN  /\ RowsOf(Rows(pg[1])', e.key) = {RowOf(e)}
                    /\ EntryOf(RowOf(e)) = e
                    /\ \A k \in StoreKeys \ {e.key} :
                         RowsOf(Rows(pg[1])', k) = RowsOf(Rows(pg[1]), k)
           /\ PgSettleStep(c, "get") /\ calls'[c].outcome = "ok" =>
                LET found == RowsOf(Rows(pg[1]), calls[c].key)
                IN  IF found = {} THEN calls'[c].result = <<>>
                    ELSE \E r \in found : calls'[c].result = <<EntryOf(r)>>
    ]_vars

\* two sets of the same key, one after the other, with entries that differ in
\* every field: the table holds the second entry only
C16_Witness ==
  LET k == <<"k","1">>
      e1 == Entry(k, <<"u">>, JsonStringify(1), Ms(StartSeconds, 0), 300)
      e2 == Entry(k, <<"v">>, JsonStringify(2), Ms(StartSeconds - 1, 0), 600)
  IN  /\ calls[1].phase = "done" /\ calls[1].op = "set" /\ calls[1].adapter = 1
      /\ calls[1].outcome = "ok" /\ calls[1].entry = <<e1>>
      /\ calls[2].phase = "done" /\ calls[2].op = "set" /\ calls[2].adapter = 1
      /\ calls[2].outcome = "ok" /\ calls[2].entry = <<e2>>
      /\ Rows(pg[1]) = {RowOf(e2)}
      /\ e1 \in StoreEntries(k) /\ e2 \in StoreEntries(k)

\* C17: a key that is not stored is no error. In both adapters a get of such
\* a key reports it absent and succeeds, a delete of such a key succeeds and
\* leaves the store as it was, a delete leaves its key absent and the other
\* keys alone, and an absent key becomes present only by a set of that key
\* (so a get after a delete reports it absent until then). The PostgreSQL
\* adapter fails only when its initialization or its statement fails, which
\* does not depend on the key being stored.
C17_AbsentIsNoError ==
  [][ /\ \A c \in Callers :
           /\ MemStep(c, "get") /\ Positions(mem, calls'[c].key) = {} =>
                /\ calls'[c].outcome = "ok" /\ calls'[c].result = <<>>
                /\ mem' = mem
           /\ MemStep(c, "delete") =>
                /\ calls'[c].outcome = "ok"
                /\ Positions(mem', calls'[c].key) = {}
                /\ \A k \in StoreKeys \ {calls'[c].key} : Under(mem', k) = Under(mem, k)
                /\ Positions(mem, calls'[c].key) = {} => mem' = mem
           /\ PgSettleStep(c, "get") =>
                /\ db' = db
                /\ calls'[c].outcome = "ok" /\ RowsOf(Rows(pg[1]), calls[c].key) = {}
                     => calls'[c].result = <<>>
                /\ calls'[c].outcome = "error" => calls'[c].err = "query"
           /\ PgSettleStep(c, "delete") =>
                /\ calls'[c].outcome = "ok" =>
                     /\ RowsOf(Rows(pg[1])', calls[c].key) = {}
                     /\ \A k \in StoreKeys \ {calls[c].key} :
                          RowsOf(Rows(pg[1])', k) = RowsOf(Rows(pg[1]), k)
                     /\ RowsOf(Rows(pg[1]), calls[c].key) = {} => db' = db
                /\ calls'[c].outcome = "error" => calls'[c].err = "query" /\ db' = db
      /\ \A k \in StoreKeys :
           /\ Positions(mem, k) = {} /\ Positions(mem', k) # {} =>
                \E c \in Callers : MemStep(c, "set") /\ calls'[c].entry[1].key = k
           /\ RowsOf(Rows(pg[1]), k) = {} /\ RowsOf(Rows(pg[1])', k) # {} =>
                \E c \in Callers : /\ PgSettleStep(c, "set")
                                   /\ calls[c].entry[1].key = k
    ]_vars

\* with another key stored, a key that is not stored was deleted and then
\* looked up: both calls succeeded, the key is reported absent and the other
\* key is still stored
C17_Witness ==
  /\ opCount = MaxOps
  /\ calls[1].phase = "done" /\ calls[1].op = "delete" /\ calls[1].adapter = 0
  /\ calls[1].key = <<"k","1">> /\ calls[1].outcome = "ok"
  /\ calls[2].phase = "done" /\ calls[2].op = "get" /\ calls[2].adapter = 0
  /\ calls[2].key = <<"k","1">> /\ calls[2].outcome = "ok" /\ calls[2].result = <<>>
  /\ Positions(mem, <<"k","1">>) = {}
  /\ Positions(mem, <<"k","2">>) # {}

\* a step in which caller c calls close of the PostgreSQL adapter
PgCloseStep(c) ==
  /\ calls[c].phase = "idle"
  /\ calls'[c].op = "close"
  /\ calls'[c].adapter = 1

\* C18 as stated: no call of close ever fails, and with no other close under
\* way client.end() has been invoked at most once per connection opened
C18_CloseNeverFails ==
  [][ \A c \in Callers :
        /\ calls'[c].op = "close" /\ calls'[c].phase = "done"
             => calls'[c].outcome = "ok"
        /\ PgCloseStep(c) /\ (\A d \in Callers : calls[d].phase # "closing")
             => pg'[1].endCalls <= pg'[1].connectOk
    ]_vars

\* C18: close of an adapter that is not initialized (never initialized, or
\* closed before) invokes nothing and succeeds; close of an initialized adapter
\* invokes client.end() once and fails exactly when that end fails, and then
\* the adapter stays initialized, so that the next close invokes end again;
\* when end succeeds the adapter is no longer initialized. Close of the memory
\* adapter does nothing and succeeds.
C18_CloseIdempotentUnlessEndFails ==
  [][ \A c \in Callers :
        /\ PgCloseStep(c) /\ ~pg[1].initialized =>
             /\ calls'[c].phase = "done" /\ calls'[c].outcome = "ok"
             /\ pg' = pg
        /\ PgCloseStep(c) /\ pg[1].initialized =>
             /\ calls'[c].phase = "closing"
             /\ pg'[1].endCalls = pg[1].endCalls + 1
             /\ pg'[1].initialized
        /\ calls[c].phase = "closing" /\ calls'[c].phase = "done" =>
             /\ pg'[1].endCalls = pg[1].endCalls
             /\ \/ /\ calls'[c].outcome = "ok"
                   /\ ~pg'[1].initialized
                \/ /\ calls'[c].outcome = "error" /\ calls'[c].err = "end"
                   /\ pg'[1].initialized = pg[1].initialized
        /\ MemStep(c, "close") =>
             /\ calls'[c].outcome = "ok"
             /\ mem' = mem /\ pg' = pg /\ db' = db
    ]_vars

\* the adapter was initialized and then closed twice in a row: both calls
\* succeeded and end was invoked once, for the one connection opened
C18_Witness ==
  /\ \A c \in Callers :
       /\ calls[c].op = "close" /\ calls[c].adapter = 1
       /\ calls[c].phase = "done" /\ calls[c].outcome = "ok"
  /\ pg[1].connectOk = 1
  /\ pg[1].endCalls = 1
  /\ \E n \in 1..Len(pg[1].attempts) : pg[1].attempts[n].phase = "resolved"
  /\ ~pg[1].initialized

\* the failure an initialization attempt ran into: the connect that was
\* rejected, or the CREATE TABLE statement that was
FailureOf(att) == IF att.err = "connect" THEN "connect" ELSE "create"

\* C19: when the initialization of the PostgreSQL adapter fails during an
\* item's lookup, at connect or at CREATE TABLE, execute ends by raising that
\* very error; the item has no result, no request was made for it and the
\* finally block has run
C19_InitFailureRaised ==
  \A b \in Batches :
    ex[b].pc = "done" /\ ex[b].postgresAdapter =>
      \A n \in 1..Len(pg[b].attempts) :
        pg[b].attempts[n].phase = "rejected" =>
          /\ ex[b].outcome = "raised"
          /\ ex[b].raised = FailureOf(pg[b].attempts[n])
          /\ Len(ex[b].returnData) = ex[b].i
          /\ ex[b].lastOpItem = ex[b].i
          /\ ex[b].fetches = ex[b].i

\* C20: a response fetched and cached under one authentication is never
\* served to a request made under another: if an item of an execution is
\* answered from the cache with the very response an earlier item of that
\* execution fetched, both items were run under the same authentication
\* (payloads are fresh per request, so equal results mean the same response)
C20_ServedUnderOwnAuthentication ==
  \A b \in Batches :
    \A i, j \in 1..Len(ex[b].returnData) :
      /\ i < j
      /\ ex[b].log[i].tag = "fetched"
      /\ ex[b].log[j].tag = "hit"
      /\ ex[b].returnData[j].json = ex[b].returnData[i].json
      => ex[b].authentication[i] = ex[b].authentication[j]

----------------------------------------------------------------------------
(* generateCacheKey on its own: a caller derives keys, one after the other, *)
(* for urls and credential hashes that are arbitrary strings                *)

MaxUrlLen == 3
MaxHashLen == 2

\* the characters of the strings: a letter and the separator
KeyChars == {"a", ":"}

Strings(n) == UNION {[1..k -> KeyChars] : k \in 0..n}

Urls == Strings(MaxUrlLen)

\* credentialHash?: string
CredentialHashes == {Undefined} \cup {Some(f) : f \in Strings(MaxHashLen)}

\* caller c evaluates generateCacheKey(url, credentialHash) and keeps the key
KeyCall(c, url, credentialHash) ==
  /\ calls' = [calls EXCEPT ![c] =
       [NoCall EXCEPT !.op = "generateCacheKey", !.phase = "done",
                      !.key = url, !.entry = credentialHash,
                      !.result = <<GenerateCacheKey(url, credentialHash)>>]]
  /\ UNCHANGED <<now, ticks, mem, db, pg, opCount, ex>>

NextKeys ==
  \E c \in 1..MaxCheckers, url \in Urls, credentialHash \in CredentialHashes :
    KeyCall(c, url, credentialHash)

SpecKeys == InitAdapter /\ [][NextKeys]_vars

\* two keys derived one after the other by caller c
KeyPair(c) ==
  /\ calls[c].op = "generateCacheKey"
  /\ calls'[c].op = "generateCacheKey"

\* C21: the key derived for a url with a credential hash (a non-empty one,
\* which is what the code takes for present) is never the key derived for a
\* url without one
C21_ScopedNeverUnscoped ==
  [][ \A c \in 1..MaxCheckers :
        /\ KeyPair(c)
        /\ Truthy(calls[c].entry)
        /\ calls'[c].entry = Undefined
        => calls'[c].result # calls[c].result
    ]_vars

----------------------------------------------------------------------------
(* The PostgreSQL adapter's set and get with responses of every kind       *)

\* entries whose response is, in turn: what JSON.stringify produces for a
\* payload the column keeps as it is; the same for a payload whose members the
\* column reorders; JSON text with whitespace; text that is not JSON
RoundTripEntries(k) ==
  {Entry(k, <<"u">>, r, Ms(StartSeconds, 500), 300) :
     r \in {JsonStringify(1), JsonStringify(-2), Spaced(3), NotJson}}

NextRoundTrip ==
  \/ AdapterStep
  \/ \E c \in Callers, k \in ClientKeys :
       \E e \in RoundTripEntries(k) : StoreCall(c, "postgres", "set", k, <<e>>)
  \/ \E c \in Callers, k \in ClientKeys : StoreCall(c, "postgres", "get", k, <<>>)
  \/ \E c \in Callers : ClientClose(c)
  \/ \E c \in Callers : ClientReturn(c)

SpecRoundTrip == InitAdapter /\ [][NextRoundTrip]_vars

\* C23 as stated: whatever string the response is, set stores the entry, and
\* the entry get builds from the stored row equals the entry set in every
\* field
C23_RoundTripEveryString ==
  [][ \A c \in Callers :
        /\ calls'[c].op = "set" => calls'[c].err # "parse"
        /\ PgSettleStep(c, "set") /\ calls'[c].outcome = "ok" =>
             \A r \in RowsOf(Rows(pg[1])', calls[c].key) :
               EntryOf(r) = calls[c].entry[1]
    ]_vars

\* C23: a set whose statement succeeded leaves one row under the key, and the
\* entry get builds from that row equals the entry set in key, requestUrl,
\* cachedAt (to the millisecond) and ttl; its response is the JSON.stringify
\* text of the value the column gives back, which is the JSON value of the
\* response set, and is the response set itself exactly when that was already
\* this text. A get that finds the row returns the entry built from it. A set
\* whose response is not JSON text fails without sending a statement, so it
\* stores nothing.
C23_RoundTripOfJsonValue ==
  [][ \A c \in Callers :
        /\ PgSettleStep(c, "set") /\ calls'[c].outcome = "ok" =>
             LET e == calls[c].entry[1]
                 rows == RowsOf(Rows(pg[1])', e.key)
             IN  /\ Cardinality(rows) = 1
                 /\ \A r \in rows :
                      LET g == EntryOf(r)
                      IN  /\ g.key = e.key /\ g.requestUrl = e.requestUrl
                          /\ g.cachedAt = e.cachedAt /\ g.ttl = e.ttl
                          /\ IsJson(e.response) /\ IsJson(g.response)
                          /\ JsonParse(g.response) = Jsonb(JsonParse(e.response))
                          /\ g.response = JsonStringify(JsonParse(g.response))
                          /\ g.response = e.response
                               <=> e.response = JsonStringify(Jsonb(JsonParse(e.response)))
        /\ PgSettleStep(c, "get") /\ calls'[c].outcome = "ok" =>
             LET found == RowsOf(Rows(pg[1]), calls[c].key)
             IN  IF found = {} THEN calls'[c].result = <<>>
                 ELSE \E r \in found : calls'[c].result = <<EntryOf(r)>>
        /\ calls'[c].op = "set" /\ ~IsJson(calls'[c].entry[1].response) =>
             /\ calls'[c].phase \in {"init", "done"}
             /\ calls'[c].phase = "done" => calls'[c].outcome = "error"
    ]_vars

\* an entry whose response is JSON text with whitespace was set, and the get
\* that followed returned it with the response in JSON.stringify's form and
\* every other field as set
C23_Witness ==
  LET k == <<"k","1">>
      e == Entry(k, <<"u">>, Spaced(3), Ms(StartSeconds, 500), 300)
  IN  /\ calls[1].op = "set" /\ calls[1].phase = "done" /\ calls[1].outcome = "ok"
      /\ calls[1].entry = <<e>>
      /\ calls[2].op = "get" /\ calls[2].phase = "done" /\ calls[2].outcome = "ok"
      /\ calls[2].result = <<[e EXCEPT !.response = JsonStringify(3)]>>
      /\ Rows(pg[1]) = {RowOf(e)}

----------------------------------------------------------------------------
(* The adapter constructed with any ssl setting and any table name, and    *)
(* then used                                                               *)

\* credentials.ssl: the six documented values, undefined, and values outside
\* the declared type (a mode the adapter does not know, the string "false")
SslSettings ==
  {[type |-> "string", v |-> x] :
     x \in {"disable", "allow", "require", "verify-ca", "verify-full", "prefer", "false"}}
  \cup {[type |-> "boolean", v |-> x] : x \in {"true", "false"}}
  \cup {[type |-> "undefined", v |-> ""]}

\* table names as a caller of the adapter may pass them: those of the
\* orchestrator's parameter and names with quotes and statement separators
ConstructorNames ==
  TableNames \cup {<<"a", "\"", "b">>, <<"\"", ";", "-", "-">>, <<"A", "_", "9", " ", "x">>}

\* the adapter is constructed
Construct(credentials, tableName) ==
  /\ ~pg[1].built
  /\ pg' = [pg EXCEPT ![1] = PostgresCacheAdapter(credentials, tableName)]
  /\ UNCHANGED <<now, ticks, mem, db, calls, opCount, ex>>

NextConstruct ==
  \/ \E credentials \in SslSettings : Construct(credentials, DefaultTable)
  \/ \E tableName \in ConstructorNames :
       Construct([type |-> "undefined", v |-> ""], tableName)
  \/ AdapterStep
  \/ \E c \in Callers, op \in {"get", "set", "delete"}, k \in ClientKeys :
       pg[1].built /\ ClientCall(c, op, k)
  \/ \E c \in Callers : pg[1].built /\ ClientClose(c)
  \/ \E c \in Callers : ClientReturn(c)

SpecConstruct == Init /\ [][NextConstruct]_vars

\* C24: the ssl option of the client is a function of credentials.ssl alone:
\* no SSL for 'disable' and false, SSL with rejectUnauthorized true for
\* 'verify-ca' and 'verify-full', and SSL with rejectUnauthorized false for
\* every other value: 'allow', 'require', true, undefined and anything else
C24_SslModeTable ==
  pg[1].built =>
    LET ssl == pg[1].credentials
    IN  /\ ssl \in SslSettings
        /\ pg[1].ssl \in {<<>>, <<[rejectUnauthorized |-> TRUE]>>,
                          <<[rejectUnauthorized |-> FALSE]>>}
        /\ pg[1].ssl = <<>>
             <=> \/ ssl.type = "string" /\ ssl.v = "disable"
                 \/ ssl.type = "boolean" /\ ssl.v = "false"
        /\ pg[1].ssl = <<[rejectUnauthorized |-> TRUE]>>
             <=> ssl.type = "string" /\ ssl.v \in {"verify-ca", "verify-full"}

\* an adapter constructed with ssl 'verify-full' has connected with a client
\* that verifies the peer
C24_Witness ==
  /\ pg[1].built
  /\ pg[1].credentials = [type |-> "string", v |-> "verify-full"]
  /\ pg[1].ssl = <<[rejectUnauthorized |-> TRUE]>>
  /\ pg[1].connectOk = 1

\* C25: whatever table name the adapter was constructed with, the identifier
\* of its statements is a double-quoted string whose content is the name's
\* characters from [A-Za-z0-9_], in their order, and nothing else; every
\* statement of the adapter names that one identifier, so the only table that
\* exists or holds rows is the one under it
C25_IdentifierSanitized ==
  pg[1].built =>
    LET name == pg[1].tableName
        ident == TableOf(pg[1])
        content == SubSeq(ident, 2, Len(ident) - 1)
    IN  /\ Len(ident) >= 2
        /\ ident[1] = "\"" /\ ident[Len(ident)] = "\""
        /\ \A i \in 1..Len(content) : content[i] \in IdentChar
        /\ content = SelectSeq(name, LAMBDA ch : ch \in IdentChar)
        /\ DOMAIN db \subseteq {ident}
        /\ pg[1].initialized => DOMAIN db = {ident}

\* an adapter constructed with the name a"b has created its table and stored
\* a row: the table is the one named "ab"
C25_Witness ==
  /\ pg[1].built
  /\ pg[1].tableName = <<"a", "\"", "b">>
  /\ DOMAIN db = {<<"\"", "a", "b", "\"">>}
  /\ db[<<"\"", "a", "b", "\"">>] # {}
  /\ \E c \in Callers : calls[c].op = "set" /\ calls[c].outcome = "ok"

\* C26: an execution that returns has produced exactly one result per input
\* item, in input order: result j is paired with item j, it is a hit, a
\* fetched response or an error result, and an error result carries the
\* error flag and the item's url; while the loop runs there is one result for
\* each item already passed
C26_OneResultPerItem ==
  \A b \in Batches :
    LET f == ex[b]
    IN  /\ f.pc \in {"item", "check", "fetch", "await_get", "await_delete", "await_set"}
             => Len(f.returnData) = f.i
        /\ f.pc = "done" /\ f.outcome = "returned" =>
             /\ Len(f.returnData) = f.n
             /\ Len(f.log) = f.n
             /\ \A j \in 1..f.n :
                  /\ f.returnData[j].pairedItem = j - 1
                  /\ f.log[j].tag \in {"hit", "fetched", "error"}
                  /\ f.returnData[j].json.error = (f.log[j].tag = "error")
                  /\ f.log[j].tag = "error" => f.returnData[j].json.url = f.log[j].url

\* an execution of two items has returned: the request of the first failed,
\* that of the second succeeded, and both have their result
C26_Witness ==
  /\ ex[1].pc = "done" /\ ex[1].outcome = "returned" /\ ex[1].n = 2
  /\ ex[1].log[1].tag = "error" /\ ex[1].log[2].tag = "fetched"
  /\ ex[1].returnData[1].pairedItem = 0 /\ ex[1].returnData[2].pairedItem = 1

\* C27: the steps of an item.  A request is made only from the request step
\* of the item, which is reached only from the cache check or the repair of
\* that item, and it ends the step, so an item has at most one request.  An
\* entry is stored only in the step in which the item's request succeeded:
\* the memory adapter then holds, and the PostgreSQL adapter is handed, the
\* entry made of the item's derived key, its url, the JSON text of the payload
\* fetched, the time of that step and the item's ttl; a failed request stores
\* nothing and gives the item its error result.  A row is written only by the
\* statement of that set, and it is the row of that entry.
C27_ItemStateMachine ==
  [][ LET Requested(b) == ex[b].pc = "fetch" /\ ex'[b].fetches = ex[b].fetches + 1
      IN
      /\ \A b \in Batches :
        LET f == ex[b]
            g == ex'[b]
            item == CHOOSE r \in Requests :
                      r.url = f.url /\ r.authentication = f.authentication[f.i + 1]
            entry == [key |-> GenerateCacheKey(f.url,
                                IF item.authentication = "none" THEN Undefined
                                ELSE Some(Sha256Hex(item.credentials))),
                      requestUrl |-> f.url,
                      response |-> [json |-> TRUE, text |-> Payload(f.run, f.i)],
                      cachedAt |-> now,
                      ttl |-> f.ttl]
        IN  /\ g.fetches # f.fetches /\ g.run = f.run => Requested(b)
            /\ Requested(b) => /\ g.pc \in {"item", "await_set"}
                               /\ g.pc = "item" => g.i = f.i + 1
            /\ g.pc = "fetch" /\ f.pc # "fetch" =>
                 /\ f.pc \in {"check", "await_delete"}
                 /\ g.i = f.i /\ g.run = f.run
            /\ calls'[b].op = "set" /\ calls[b].op # "set" =>
                 Requested(b) /\ g.pc = "await_set"
            /\ Requested(b) /\ g.pc = "item" /\ g.log[Len(g.log)].tag = "error" =>
                 mem' = mem /\ calls' = calls /\ db' = db
            /\ Requested(b) /\ g.pc = "item" /\ g.log[Len(g.log)].tag = "fetched" =>
                 /\ f.storage = "memory"
                 /\ Under(mem', entry.key) = {entry}
                 /\ g.returnData[Len(g.returnData)].json.body = Payload(f.run, f.i)
            /\ Requested(b) /\ g.pc = "await_set" =>
                 /\ calls'[b].op = "set" /\ calls'[b].entry = <<entry>>
                 /\ db' = db
      /\ (\E k \in {mem'[n].key : n \in 1..Len(mem')} :
            ~(Under(mem', k) \subseteq Under(mem, k)))
           => \E b \in Batches : /\ Requested(b) /\ ex[b].storage = "memory"
                                 /\ ex'[b].pc = "item"
      /\ \A t \in DOMAIN db \cap DOMAIN db' :
           ~(db'[t] \subseteq db[t]) =>
             \E b \in Batches :
               /\ ex[b].pc = "await_set"
               /\ calls[b].op = "set" /\ calls'[b].outcome = "ok"
               /\ db'[t] \ db[t] =
                    {[key |-> calls[b].entry[1].key,
                      request_url |-> calls[b].entry[1].requestUrl,
                      response |-> calls[b].entry[1].response.text,
                      cached_at |-> calls[b].entry[1].cachedAt,
                      ttl |-> calls[b].entry[1].ttl]}
    ]_vars

\* the first item of an execution on PostgreSQL has been fetched and stored
\* and has its result
C27_Witness ==
  /\ ex[1].storage = "postgres" /\ ex[1].pc = "item" /\ ex[1].i = 1
  /\ ex[1].fetches = 1 /\ ex[1].log[1].tag = "fetched"
  /\ \E r \in Rows(pg[1]) :
       /\ r.request_url = ex[1].log[1].url
       /\ r.response = ex[1].returnData[1].json.body

\* C28: with either storage, the cache check answers an item from the entry
\* the lookup returned only if that entry is valid at the time of the check;
\* when the lookup returned nothing or an expired entry (the PostgreSQL
\* adapter returns rows whatever their age) the item goes on to the request.
\* Once the request has succeeded and the entry is stored, the store holds
\* under the item's key the fresh entry and nothing else.
C28_ExpiredNeverServed ==
  [][ \A b \in Batches :
        LET f == ex[b]
            g == ex'[b]
            checked == f.pc = "check" /\ g.pc # "check"
            usable == f.cachedEntry # <<>> /\ ValidAt(f.cachedEntry[1], now)
        IN  /\ Len(g.log) > Len(f.log) /\ g.log[Len(g.log)].tag = "hit" =>
                 /\ checked /\ usable
                 /\ g.returnData[Len(g.returnData)].json.body
                      = f.cachedEntry[1].response.text
            /\ checked /\ ~usable =>
                 /\ g.pc = "fetch"
                 /\ g.returnData = f.returnData
                 /\ mem' = mem /\ db' = db /\ calls' = calls
            /\ f.pc = "fetch" /\ g.fetches = f.fetches + 1 /\ g.pc = "item"
               /\ g.log[Len(g.log)].tag = "fetched" =>
                 /\ Cardinality(Positions(mem', f.cacheKey)) = 1
                 /\ \A e \in Under(mem', f.cacheKey) :
                      /\ e.cachedAt = now /\ ValidAt(e, now) = (f.ttl > 0)
                      /\ e.response.text = Payload(f.run, f.i)
            /\ f.pc = "await_set" /\ g.pc = "item" /\ g.log[Len(g.log)].tag = "fetched" =>
                 \E e \in {calls[b].entry[1]} :
                   /\ RowsOf(Rows(pg[b]), f.cacheKey) = {RowOf(e)}
                   /\ e.response.text = Payload(f.run, f.i)
                   /\ f.cachedEntry # <<>> => e.cachedAt # f.cachedEntry[1].cachedAt
    ]_vars

\* on PostgreSQL the lookup returned an expired row; the item was fetched and
\* the set has replaced the row with the fresh entry
C28_Witness ==
  /\ ex[1].storage = "postgres" /\ ex[1].pc = "await_set"
  /\ ex[1].cachedEntry # <<>>
  /\ ~ValidAt(ex[1].cachedEntry[1], now)
  /\ calls[1].op = "set" /\ calls[1].phase = "done" /\ calls[1].outcome = "ok"
  /\ RowsOf(Rows(pg[1]), ex[1].cacheKey) = {RowOf(calls[1].entry[1])}
  /\ calls[1].entry[1].cachedAt = now

\* C29: set prunes before it evicts.  Right after set(e) every entry of the
\* map other than e is unexpired at the time of the call, and no unexpired
\* entry has left the map unless 1000 or more unexpired entries were in the
\* map when set was called: with fewer, the entries under other keys are
\* after the call exactly the unexpired ones of before.
C29_PruneBeforeEvict ==
  [][\A c \in Callers :
       LET call == calls'[c]
           e == call.entry[1]
           live == SelectSeq(mem, LAMBDA x : ValidAt(x, now))
       IN  (call # calls[c] /\ call.op = "set") =>
             /\ \A i \in 1..Len(mem') :
                  mem'[i].key # e.key => ValidAt(mem'[i], now)
             /\ Len(live) < 1000 =>
                  SelectSeq(mem', LAMBDA x : x.key # e.key)
                    = SelectSeq(live, LAMBDA x : x.key # e.key)
    ]_vars

\* the second key expired while a caller held it from a get; the sets that
\* followed removed it, and the map has reached its limit with the first key
\* still the oldest: room was made by pruning, not by eviction
C29_Witness ==
  /\ ticks = 1 /\ opCount = 3
  /\ calls[1].op = "set" /\ calls[1].entry[1].cachedAt = now
  /\ calls[2].op = "get" /\ calls[2].key = MemKey(2) /\ calls[2].result # <<>>
  /\ Len(mem) = 1000
  /\ mem[1].key = MemKey(1) /\ mem[2].key = MemKey(3)

\* C30: a set of a key the map holds leaves every entry inserted before that
\* key, if it is still in the map afterwards, before it in eviction order; a
\* set of a key the map does not hold puts it last.
C30_OverwriteKeepsPriority ==
  [][\A c \in Callers :
       LET call == calls'[c]
           k == call.key
           at == CHOOSE i \in 1..Len(mem) : mem[i].key = k
           atAfter == CHOOSE i \in 1..Len(mem') : mem'[i].key = k
           keysAfter == {mem'[i].key : i \in 1..Len(mem')}
           keysBefore == {mem'[i].key : i \in 1..(atAfter - 1)}
       IN  (call # calls[c] /\ call.op = "set") =>
             /\ Cardinality({i \in 1..Len(mem') : mem'[i].key = k}) = 1
             /\ (\E i \in 1..Len(mem) : mem[i].key = k) =>
                  ({mem[j].key : j \in 1..(at - 1)} \cap keysAfter)
                    \subseteq keysBefore
             /\ (\A i \in 1..Len(mem) : mem[i].key # k) =>
                  mem'[Len(mem')].key = k
    ]_vars

\* the first key was deleted and set again, which made it the newest; it was
\* then overwritten and is still behind all the entries inserted before it
C30_Witness ==
  /\ opCount = 3 /\ Len(mem) = PreFill
  /\ calls[1].op = "delete" /\ calls[1].key = MemKey(1)
  /\ calls[2].op = "set" /\ calls[2].key = MemKey(1)
  /\ mem[PreFill] = calls[2].entry[1]
  /\ mem[PreFill].response = JsonStringify(PreFill + 3)
  /\ mem[1].key = MemKey(2) /\ mem[PreFill - 1].key = MemKey(PreFill)

----------------------------------------------------------------------------
(* Claims on the connection's lifecycle                                    *)

\* C31: every statement of get, set and delete is issued while the adapter's
\* connection is open: a call never sends its statement on a client whose
\* end() has been called.
C31_StatementsOnOpenConnection ==
  [][ \A c \in CallIds :
        (calls'[c].phase = "query" /\ calls[c].phase # "query")
          => pg'[calls'[c].adapter].open
    ]_vars

\* C32: the adapter calls connect on its client only while the client has
\* neither been connected nor ended: at most one connect call per client,
\* and none after an end call.
C32_ConnectOncePerClient ==
  [][ \A a \in Adapters :
        pg'[a].connectCalls > pg[a].connectCalls
          => pg[a].connectCalls = 0 /\ pg[a].endCalls = 0
    ]_vars

\* close() is called by c while a connect-and-provision of the adapter has
\* not settled yet
CloseWhileInitializing(c) ==
  /\ InFlight(pg[1]) # {}
  /\ ClientClose(c)

\* caller 1 uses the adapter and closes it when it likes; caller 2 closes it
\* only while an initialization is in flight
NextCloseRace ==
  \/ AdapterStep
  \/ \E op \in {"get", "set", "delete"}, k \in ClientKeys : ClientCall(1, op, k)
  \/ ClientClose(1)
  \/ CloseWhileInitializing(2)
  \/ \E c \in Callers : ClientReturn(c)

SpecCloseRace == InitAdapter /\ [][NextCloseRace]_vars

\* C33: when close was called while the first initialization was in flight
\* and has succeeded, and that initialization and every call have settled,
\* the connection is not open.
C33_NoOpenConnectionAfterClose ==
  ( /\ calls[2].op = "close" /\ calls[2].phase = "done" /\ calls[2].outcome = "ok"
    /\ InFlight(pg[1]) = {}
    /\ \A c \in Callers : calls[c].phase \in {"idle", "done"} )
    => ~pg[1].open

----------------------------------------------------------------------------
(* Claims on the results of an item                                        *)

\* C34: an item whose request succeeded gets the fetched payload as its
\* result whether or not the set that follows succeeds, and an item gets an
\* error result only in the step in which its request fails.
C34_FetchedPayloadEmitted ==
  [][ \A b \in Batches :
        LET f == ex[b]
            g == ex'[b]
            r == g.returnData[Len(g.returnData)]
        IN  Len(g.returnData) > Len(f.returnData) =>
              /\ f.pc = "await_set" => r.json = PayloadJson(Payload(f.run, f.i))
              /\ r.json.error => f.pc = "fetch" /\ g.fetches = f.fetches + 1
    ]_vars

\* C35 as stated: an item whose request fails issues no set and leaves the
\* entries under other keys as they are, and its own key holds afterwards
\* what it held before the item, unless that entry was corrupt, in which
\* case the repair may have deleted it.
C35_FailedItemDeletesOnlyCorrupt ==
  [][ \A b \in Batches :
        LET f == ex[b]
            g == ex'[b]
            failing == /\ f.pc = "fetch" /\ Len(g.log) > Len(f.log)
                       /\ g.log[Len(g.log)].tag = "error"
        IN  failing =>
              \/ StoreEntry(b, f.cacheKey) = f.found
              \/ /\ f.found # <<>> /\ StoreEntry(b, f.cacheKey) = <<>>
                 /\ ~IsJson(f.found[1].response)
    ]_vars

\* C35: an item whose request fails issues no set, and neither its lookup,
\* its check, its repair nor its failed request changes an entry under
\* another key.  Its own key holds afterwards what it held before the item,
\* or nothing: the entry was corrupt and the repair deleted it, or it was
\* expired and the lookup of the memory adapter deleted it.
C35_FailedItemOnlyDeletesOwnEntry ==
  [][ \A b \in Batches :
        LET f == ex[b]
            g == ex'[b]
            failing == /\ f.pc = "fetch" /\ Len(g.log) > Len(f.log)
                       /\ g.log[Len(g.log)].tag = "error"
            key == IF f.pc = "item" THEN g.cacheKey ELSE f.cacheKey
            rowsAfter == IF TableOf(pg'[b]) \in DOMAIN db'
                         THEN db'[TableOf(pg'[b])] ELSE {}
        IN  /\ (f.pc \in {"item", "await_get", "check", "await_delete"} \/ failing) =>
              /\ SelectSeq(mem', LAMBDA e : e.key # key)
                   = SelectSeq(mem, LAMBDA e : e.key # key)
              /\ {r \in rowsAfter : r.key # key} = {r \in Rows(pg[b]) : r.key # key}
              /\ calls'[b].op # "set"
            /\ failing =>
              /\ mem' = mem /\ db' = db /\ calls' = calls
              /\ \/ StoreEntry(b, f.cacheKey) = f.found
                 \/ /\ f.found # <<>> /\ StoreEntry(b, f.cacheKey) = <<>>
                    /\ \/ ~IsJson(f.found[1].response)
                       \/ f.storage = "memory" /\ ~ValidAt(f.found[1], now)
    ]_vars

\* with memory storage an item was fetched and stored, its entry expired, and
\* the next item for the same request found it gone at its lookup and then
\* failed: the map holds nothing under the key
C35_Witness ==
  /\ ex[1].storage = "memory" /\ ticks = 1
  /\ Len(ex[1].log) = 2
  /\ ex[1].log[1].tag = "fetched" /\ ex[1].log[2].tag = "error"
  /\ ex[1].log[1].url = ex[1].log[2].url
  /\ ex[1].authentication[1] = ex[1].authentication[2]
  /\ mem = <<>>

----------------------------------------------------------------------------
(* Executions that overlap in one process.  Each slot runs its executions  *)
(* one after the other; the slots take their steps in any order and share  *)
(* the memory adapter's map.                                               *)

NextConcurrent ==
  \/ \E b \in Batches, n \in 1..MaxItems : ExecuteStart(b, "memory", n, <<>>)
  \/ \E b \in Batches, req \in Requests : ItemBegin(b, req, Preset(300))
  \/ \E b \in Batches : LoopExit(b)
  \/ \E b \in Batches : CheckCache(b)
  \/ \E b \in Batches, ok \in BOOLEAN : Fetch(b, ok)
  \/ \E b \in Batches : Finally(b)
  \/ \E d \in Deltas : Tick(d)

SpecConcurrent == Init /\ [][NextConcurrent]_vars

\* C36 as stated: while no entry has had the time to expire, the executions
\* under way and finished have between them made at most one successful
\* request for one url and authentication.
C36_OneFetchPerKey ==
  ticks = 0 =>
    \A req \in Requests :
      Cardinality({<<b, j>> \in Batches \X (1..MaxItems) :
                     /\ j <= Len(ex[b].log)
                     /\ ex[b].log[j].tag = "fetched"
                     /\ ex[b].log[j].url = req.url
                     /\ ex[b].authentication[j] = req.authentication}) <= 1

\* C36: nothing keeps two overlapping executions from requesting the same
\* resource.  Each item makes at most one request, and makes it only when
\* the entry its own lookup returned is absent, expired or corrupt, whatever
\* the other execution has stored since; an item is served from the cache
\* only with the entry its lookup returned; and every successful request
\* stores its entry, so that the map holds under the key the entry of the
\* set made last.
C36_FetchDecidedByOwnLookup ==
  [][ \A b \in Batches :
        LET f == ex[b]
            g == ex'[b]
            usable == /\ f.cachedEntry # <<>>
                      /\ ValidAt(f.cachedEntry[1], now)
                      /\ IsJson(f.cachedEntry[1].response)
        IN  /\ g.fetches > f.fetches =>
              /\ f.pc = "fetch" /\ g.fetches = f.fetches + 1 /\ g.i = f.i + 1
            /\ (f.pc = "check" /\ g.pc = "fetch") => ~usable
            /\ (f.pc = "check" /\ g.pc = "item") =>
              /\ usable
              /\ g.returnData[Len(g.returnData)].json
                   = PayloadJson(f.cachedEntry[1].response.text)
            /\ (f.pc = "fetch" /\ g.pc = "item" /\ g.log[Len(g.log)].tag = "fetched") =>
                 Under(mem', f.cacheKey)
                   = {Entry(f.cacheKey, f.url, JsonStringify(Payload(f.run, f.i)),
                            now, f.ttl)}
    ]_vars

\* two executions under way at the same moment have both requested the same
\* resource in their first item and both stored it, with no time passed in
\* between; the map holds one entry
C36_Witness ==
  /\ ticks = 0
  /\ \A b \in {1, 2} :
       /\ ex[b].pc \notin {"idle", "done"}
       /\ Len(ex[b].log) >= 1 /\ ex[b].log[1].tag = "fetched"
       /\ ex[b].fetches >= 1
  /\ ex[1].log[1].url = ex[2].log[1].url
  /\ ex[1].authentication[1] = ex[2].authentication[1]
  /\ Len(mem) = 1

----------------------------------------------------------------------------
(* Claims on the table name                                                *)

\* C37: a table name that passes the validation of execute comes out of
\* escapeName unchanged between two double quotes, so distinct accepted names
\* give distinct identifiers; the adapter execute builds carries the
\* configured name, and the table it provisions and queries is the one named
\* by that name in quotes.
C37_AcceptedNamesAreFixedPoints ==
  LET Quoted(n) == <<"\"">> \o n \o <<"\"">>
      Names == {DefaultTable, <<"_", "A", "9">>, <<"Z">>, <<"a", "b">>, <<"A", "B">>,
                <<"a", "\"", "b">>, <<"a", " ", "b">>, <<"a", "_", "b">>,
                <<"1", "a">>, <<>>}
      Accepted == {n \in Names : TableNameError(n) = "none"}
  IN  /\ \A n \in Accepted : EscapeName(n) = Quoted(n)
      /\ \A n1, n2 \in Accepted : EscapeName(n1) = EscapeName(n2) => n1 = n2
      /\ pg[1].built =>
           /\ pg[1].tableName = ex[1].tableName
           /\ TableNameError(ex[1].tableName) = "none"
           /\ TableOf(pg[1]) = Quoted(ex[1].tableName)
           /\ pg[1].initialized => Quoted(ex[1].tableName) \in DOMAIN db
      /\ \A t \in DOMAIN db : t \in {Quoted(DefaultTable), Quoted(Name63)}

\* two executions with different accepted names have each provisioned their
\* own table
C37_Witness ==
  /\ pg[1].built /\ pg[1].initialized
  /\ ex[1].tableName = Name63
  /\ Cardinality(DOMAIN db) = 2
  /\ <<"\"">> \o DefaultTable \o <<"\"">> \in DOMAIN db

----------------------------------------------------------------------------
(* Claims on overwriting in the memory adapter                             *)

\* C38 as stated: a set on a key the map holds leaves every unexpired entry
\* under another key in the map.
C38_OverwriteRemovesNothing ==
  [][\A c \in Callers :
       LET call == calls'[c]
           k == call.key
           live == SelectSeq(mem, LAMBDA x : ValidAt(x, now))
       IN  (call # calls[c] /\ call.op = "set" /\ MemHas(mem, k)) =>
             SelectSeq(mem', LAMBDA x : x.key # k)
               = SelectSeq(live, LAMBDA x : x.key # k)
    ]_vars

\* C38: a set on a key the map holds leaves every unexpired entry under
\* another key in the map if the map holds fewer than 1000 unexpired
\* entries.  If it holds 1000, the oldest of them is evicted first, as for a
\* new key: when that is the key being set, the 999 others stay and the key
\* becomes the newest; otherwise one other unexpired entry is lost and the
\* map is left with 999 entries.
C38_OverwriteEvictsAtCapacity ==
  [][\A c \in Callers :
       LET call == calls'[c]
           k == call.key
           live == SelectSeq(mem, LAMBDA x : ValidAt(x, now))
           others == SelectSeq(live, LAMBDA x : x.key # k)
           othersAfter == SelectSeq(mem', LAMBDA x : x.key # k)
       IN  (call # calls[c] /\ call.op = "set" /\ MemHas(mem, k)) =>
             /\ Len(live) < 1000 => othersAfter = others
             /\ (Len(live) = 1000 /\ live[1].key = k) =>
                  /\ othersAfter = others
                  /\ Len(mem') = 1000 /\ mem'[1000].key = k
             /\ (Len(live) = 1000 /\ live[1].key # k) =>
                  /\ othersAfter = Tail(others)
                  /\ Len(mem') = 999
                  /\ \A i \in 1..999 : mem'[i].key # live[1].key
    ]_vars

\* the map held 1000 unexpired entries when the second-oldest key was set
\* again: the oldest entry is gone and 999 are left
C38_Witness ==
  /\ opCount = 3 /\ ticks = 0
  /\ \E c \in Callers : calls[c].op = "set" /\ calls[c].key = MemKey(2)
                        /\ mem[1] = calls[c].entry[1]
  /\ Len(mem) = 999
  /\ mem[999].key = MemKey(PreFill + 2)

----------------------------------------------------------------------------
(* Items that ask for another ttl than the one their entry was stored      *)
(* with: five minutes against a year, with a little more than five minutes *)
(* passing in between                                                      *)

NextRequestedTtl ==
  \/ AdapterStep
  \/ \E storage \in {"memory", "postgres"}, n \in 1..MaxItems :
       ExecuteStart(1, storage, n, IF storage = "postgres" THEN DefaultTable ELSE <<>>)
  \/ \E req \in Requests, dur \in {Preset(300), Custom(Num(TTL_MAX))} :
       ItemBegin(1, req, dur)
  \/ LoopExit(1)
  \/ AwaitAdapter(1)
  \/ CheckCache(1)
  \/ \E ok \in BOOLEAN : Fetch(1, ok)
  \/ Finally(1)
  \/ AwaitClose(1)
  \/ Tick(Ms(301, 0))

SpecRequestedTtl == Init /\ [][NextRequestedTtl]_vars

\* C39: the cache check serves an item exactly when the entry the lookup
\* returned is present, parses, and is unexpired by its own cachedAt and ttl
\* at the current time; the ttl the item asks for plays no part.  A hit
\* changes no store, so the entry keeps the ttl it was stored with.
C39_HitIgnoresRequestedTtl ==
  [][ \A b \in Batches :
        LET f == ex[b]
            g == ex'[b]
            served == Len(g.log) > Len(f.log) /\ g.log[Len(g.log)].tag = "hit"
        IN  (f.pc = "check" /\ g.pc # "check") =>
              /\ served <=> /\ f.cachedEntry # <<>>
                            /\ ValidAt(f.cachedEntry[1], now)
                            /\ IsJson(f.cachedEntry[1].response)
              /\ served =>
                   /\ mem' = mem /\ db' = db /\ pg' = pg /\ calls' = calls
                   /\ StoreEntry(b, f.cacheKey) \in {<<>>, f.cachedEntry}
    ]_vars

\* an item asking for five minutes has looked up an entry stored with a ttl
\* of a year more than five minutes ago; the entry is unexpired, still in the
\* store with its ttl, and the check that follows serves it
C39_Witness ==
  /\ ex[1].pc = "check" /\ ex[1].ttl = 300
  /\ ex[1].cachedEntry # <<>>
  /\ ex[1].cachedEntry[1].ttl = TTL_MAX
  /\ IsJson(ex[1].cachedEntry[1].response)
  /\ now = MsAdd(ex[1].cachedEntry[1].cachedAt, Ms(301, 0))
  /\ StoreEntry(1, ex[1].cacheKey) = ex[1].cachedEntry

----------------------------------------------------------------------------
(* Termination.  Executions follow one another in slot 1 over a map that   *)
(* is empty or full.  Every step of execute and every settling of a call   *)
(* it awaits is taken once it can be; only the start of an execution is    *)
(* left to the caller.                                                     *)

InitTermination ==
  /\ InitStores
  /\ mem \in {<<>>, <<CorruptEntry>>, Filled(PreFill + 2)}
  /\ pg = [a \in Adapters |-> Unbuilt]
  /\ ex = [b \in Batches |-> NoBatch]

ExecuteSteps ==
  \/ AdapterStep
  \/ \E req \in Requests, dur \in {Preset(300), Custom(Num(0))} : ItemBegin(1, req, dur)
  \/ LoopExit(1)
  \/ AwaitAdapter(1)
  \/ CheckCache(1)
  \/ \E ok \in BOOLEAN : Fetch(1, ok)
  \/ Finally(1)
  \/ AwaitClose(1)

NextTermination ==
  \/ \E storage \in {"memory", "postgres"}, n \in 0..MaxItems :
       ExecuteStart(1, storage, n, IF storage = "postgres" THEN DefaultTable ELSE <<>>)
  \/ ExecuteSteps

SpecTermination ==
  InitTermination /\ [][NextTermination]_vars /\ WF_vars(ExecuteSteps)

\* C40: when every call execute awaits settles, an execution that has begun
\* ends: it returns its results or raises.  When it returns, every item has
\* exactly one result, of a cache hit, of a fetch that was stored, or of a
\* recorded error; when it raises, the items before the one that aborted the
\* batch have theirs.  The eviction loop of set ends on every map it meets:
\* after as many rounds as there are unexpired entries beyond 999, which
\* leaves at most 1000 entries.
C40_ExecuteTerminates ==
  /\ (ex[1].pc \notin {"idle", "done"}) ~> (ex[1].pc = "done")
  /\ [](ex[1].pc = "done" =>
          LET f == ex[1]
          IN  /\ f.outcome \in {"returned", "raised"}
              /\ Len(f.returnData) = Len(f.log)
              /\ \A j \in 1..Len(f.log) :
                   /\ f.log[j].tag \in {"hit", "fetched", "error"}
                   /\ f.returnData[j].pairedItem = j - 1
                   /\ f.returnData[j].json.error <=> f.log[j].tag = "error"
              /\ f.outcome = "returned" => f.thrown = "none" /\ Len(f.log) = f.n
              /\ f.outcome = "raised" =>
                   /\ f.thrown # "none"
                   /\ \/ f.thrown = "tableName" /\ Len(f.log) = 0
                      \/ Len(f.log) = f.i /\ f.i < f.n)
  /\ [][ LET f == ex[1]
             g == ex'[1]
             live == SelectSeq(mem, LAMBDA x : ValidAt(x, now))
             rounds == IF Len(live) >= MAX_CACHE_ENTRIES THEN Len(live) - (MAX_CACHE_ENTRIES - 1) ELSE 0
         IN  (f.pc = "fetch" /\ f.storage = "memory" /\ g.pc = "item"
              /\ g.log[Len(g.log)].tag = "fetched") =>
               /\ rounds \in 0..Len(mem)
               /\ Len(mem') <= MAX_CACHE_ENTRIES
               /\ Len(mem') \in {Len(live) - rounds, Len(live) - rounds + 1}
     ]_vars

\* an execution over a full map has ended: its item was fetched and stored
\* after the loop had evicted the oldest entry
C40_Witness ==
  /\ ex[1].pc = "done" /\ ex[1].outcome = "returned"
  /\ ex[1].storage = "memory" /\ ex[1].n = 1
  /\ ex[1].log[1].tag = "fetched"
  /\ Len(mem) = MAX_CACHE_ENTRIES
  /\ mem[1].key = MemKey(2)
  /\ mem[MAX_CACHE_ENTRIES].requestUrl = ex[1].log[1].url

====
